---- MODULE Spec2Model ----
(***************************************************************************)
(* State-machine model of the YUTorah podcast downloader:                  *)
(*   download_podcasts.py  identifier extraction, the four-strategy page   *)
(*                         extractor, reconciliation and the CLI run loop  *)
(*   app.py                check_feed and the batch download loop          *)
(*   google_drive_auth.py  the remote folder listing and its shiurID tags  *)
(* Python str values are TLA+ strings (TLC evaluates Len, \o and SubSeq on *)
(* them), so URL and text handling is modelled character by character.     *)
(***************************************************************************)
EXTENDS Integers, Sequences, FiniteSets, TLC

(***************************************************************************)
(* Python values                                                           *)
(***************************************************************************)
\* Python's None where a str is otherwise expected ('<' occurs in no URL,
\* identifier or title of the model, so no real string equals it).
None == "<None>"

\* bool(v) for v a str or None
Truthy(v) == v # None /\ v # ""

\* a or b
PyOr(a, b) == IF Truthy(a) THEN a ELSE b

(***************************************************************************)
(* str helpers                                                             *)
(***************************************************************************)
CharAt(s, i) == SubSeq(s, i, i)

Digits == {"0", "1", "2", "3", "4", "5", "6", "7", "8", "9"}

\* s[i-1:].startswith(lit), 1-based i
StartsWithAt(s, i, lit) ==
    /\ i >= 1
    /\ i + Len(lit) - 1 <= Len(s)
    /\ SubSeq(s, i, i + Len(lit) - 1) = lit

StartsWith(s, lit) == StartsWithAt(s, 1, lit)

EndsWith(s, lit) ==
    /\ Len(lit) <= Len(s)
    /\ SubSeq(s, Len(s) - Len(lit) + 1, Len(s)) = lit

\* lit in s
Contains(s, lit) == \E i \in 1..Len(s) + 1 : StartsWithAt(s, i, lit)

\* s.find(lit) as a 1-based position, 0 when absent
Find(s, lit) ==
    IF Contains(s, lit)
    THEN CHOOSE i \in 1..Len(s) + 1 :
            /\ StartsWithAt(s, i, lit)
            /\ \A j \in 1..(i - 1) : ~StartsWithAt(s, j, lit)
    ELSE 0

UpperLetters == "ABCDEFGHIJKLMNOPQRSTUVWXYZ"
LowerLetters == "abcdefghijklmnopqrstuvwxyz"

LowerChar(c) ==
    IF Contains(UpperLetters, c) /\ Len(c) = 1
    THEN CharAt(LowerLetters, Find(UpperLetters, c))
    ELSE c

\* str.lower()
RECURSIVE Lower(_)
Lower(s) ==
    IF Len(s) = 0 THEN ""
    ELSE LowerChar(CharAt(s, 1)) \o Lower(SubSeq(s, 2, Len(s)))

\* the end of the maximal digit run starting at i (i - 1 when s[i] is no digit): \d+ is greedy
DigitRunEnd(s, i) ==
    CHOOSE j \in (i - 1)..Len(s) :
        /\ \A k \in i..j : CharAt(s, k) \in Digits
        /\ (j = Len(s) \/ CharAt(s, j + 1) \notin Digits)

(***************************************************************************)
(* extract_shiur_id  (download_podcasts.py 70-105)                         *)
(***************************************************************************)
\* urlparse(url) raises ValueError("Invalid IPv6 URL") when the text between
\* "//" and the next "/", "?" or "#" has one square bracket without the other
UrlparseRaises(url) ==
    LET a == Find(url, "//")
        rest == IF a = 0 THEN "" ELSE SubSeq(url, a + 2, Len(url))
        ends == {i \in 1..Len(rest) : CharAt(rest, i) \in {"/", "?", "#"}}
        netloc == IF ends = {} THEN rest
                  ELSE SubSeq(rest, 1, (CHOOSE i \in ends : \A j \in ends : i <= j) - 1)
    IN  Contains(netloc, "[") # Contains(netloc, "]")

\* urlparse(page_url).query: the fragment is cut at the first '#', then the
\* query is what follows the first '?' of the rest.
UrlQuery(page_url) ==
    LET h == Find(page_url, "#")
        noFrag == IF h = 0 THEN page_url ELSE SubSeq(page_url, 1, h - 1)
        q == Find(noFrag, "?")
    IN  IF q = 0 THEN "" ELSE SubSeq(noFrag, q + 1, Len(noFrag))

\* unquote(v.replace('+', ' ')); the model's URLs carry no '%' escapes
RECURSIVE UnquotePlus(_)
UnquotePlus(s) ==
    IF Len(s) = 0 THEN ""
    ELSE (IF CharAt(s, 1) = "+" THEN " " ELSE CharAt(s, 1)) \o UnquotePlus(SubSeq(s, 2, Len(s)))

\* parse_qs(query).get('shiurID', [None])[0]: the fields are split at '&', a
\* field without '=' or with a blank value is dropped (keep_blank_values is
\* False), and the first remaining value named shiurID is taken.
RECURSIVE FirstShiurIDParam(_)
FirstShiurIDParam(query) ==
    IF Len(query) = 0 THEN None
    ELSE LET a == Find(query, "&")
             field == IF a = 0 THEN query ELSE SubSeq(query, 1, a - 1)
             rest == IF a = 0 THEN "" ELSE SubSeq(query, a + 1, Len(query))
             e == Find(field, "=")
             name == IF e = 0 THEN field ELSE SubSeq(field, 1, e - 1)
             value == IF e = 0 THEN "" ELSE SubSeq(field, e + 1, Len(field))
         IN  IF e # 0 /\ Len(value) > 0 /\ UnquotePlus(name) = "shiurID"
             THEN UnquotePlus(value)
             ELSE FirstShiurIDParam(rest)

\* re.search(r'/lectures/(?:lecture\.cfm/|details/)?(\d+)', s) at start position i:
\* the position after the optional group where the digit run begins, 0 if no match
LecturesDigitsAt(s, i) ==
    IF ~StartsWithAt(s, i, "/lectures/") THEN 0
    ELSE LET p == i + 10
         IN  IF StartsWithAt(s, p, "lecture.cfm/") /\ DigitRunEnd(s, p + 12) >= p + 12
             THEN p + 12
             ELSE IF StartsWithAt(s, p, "details/") /\ DigitRunEnd(s, p + 8) >= p + 8
             THEN p + 8
             ELSE IF DigitRunEnd(s, p) >= p
             THEN p
             ELSE 0

\* group(1) of the leftmost match of Format 2, None when there is none
PathShiurID(s) ==
    IF \E i \in 1..Len(s) : LecturesDigitsAt(s, i) # 0
    THEN LET i == CHOOSE k \in 1..Len(s) :
                    /\ LecturesDigitsAt(s, k) # 0
                    /\ \A j \in 1..(k - 1) : LecturesDigitsAt(s, j) = 0
             d == LecturesDigitsAt(s, i)
         IN  SubSeq(s, d, DigitRunEnd(s, d))
    ELSE None

\* re.search(r'shiurID[=:](\d+)', s) at start position i
LegacyDigitsAt(s, i) ==
    IF (StartsWithAt(s, i, "shiurID=") \/ StartsWithAt(s, i, "shiurID:"))
       /\ DigitRunEnd(s, i + 8) >= i + 8
    THEN i + 8
    ELSE 0

\* group(1) of the leftmost match of Format 3, None when there is none
LegacyShiurID(s) ==
    IF \E i \in 1..Len(s) : LegacyDigitsAt(s, i) # 0
    THEN LET i == CHOOSE k \in 1..Len(s) :
                    /\ LegacyDigitsAt(s, k) # 0
                    /\ \A j \in 1..(k - 1) : LegacyDigitsAt(s, j) = 0
             d == LegacyDigitsAt(s, i)
         IN  SubSeq(s, d, DigitRunEnd(s, d))
    ELSE None

\* an extract_shiur_id that looks at the path before the query string
ExtractShiurIdPathFirst(page_url) ==
    LET q == IF UrlparseRaises(page_url) THEN None
             ELSE FirstShiurIDParam(UrlQuery(page_url))
        p == PathShiurID(page_url)
    IN  IF p # None THEN p
        ELSE IF q # None THEN q
        ELSE LegacyShiurID(page_url)

\* Format 1 is inside a try whose bare except passes: when urlparse raises,
\* the function goes on to Format 2
extract_shiur_id(page_url) ==
    LET q == IF UrlparseRaises(page_url) THEN None
             ELSE FirstShiurIDParam(UrlQuery(page_url))
        p == PathShiurID(page_url)
    IN  IF q # None THEN q
        ELSE IF p # None THEN p
        ELSE LegacyShiurID(page_url)

(***************************************************************************)
(* JSON values (what json.loads returns), each a record [t, v, items]      *)
(***************************************************************************)
JNull == [t |-> "null", v |-> "", items |-> <<>>]
JStr(s) == [t |-> "str", v |-> s, items |-> <<>>]
\* an int, kept by its decimal text
JInt(digits) == [t |-> "int", v |-> digits, items |-> <<>>]
\* a dict: items is the sequence of its [k, n] members in document order
JDict(items) == [t |-> "dict", v |-> "", items |-> items]
\* a list: the members' keys are unused
JList(items) == [t |-> "list", v |-> "", items |-> items]
KV(k, n) == [k |-> k, n |-> n]

\* a key that a dict under construction does not hold yet
Absent == [t |-> "absent", v |-> "", items |-> <<>>]

\* bool(value)
JTruthy(n) ==
    CASE n.t = "str" -> n.v # ""
      [] n.t = "int" -> n.v # "0"
      [] n.t = "dict" -> Len(n.items) > 0
      [] n.t = "list" -> Len(n.items) > 0
      [] OTHER -> FALSE

\* str(value) of a str, an int or None
PyStr(n) ==
    CASE n.t = "str" -> n.v
      [] n.t = "int" -> n.v
      [] OTHER -> "None"

\* a str-or-None of the model as a Python value
PyVal(s) == IF s = None THEN JNull ELSE JStr(s)

\* dict.get(key): the value of the last member named key, None when absent
DictGet(d, key) ==
    IF d.t = "dict" /\ \E i \in 1..Len(d.items) : d.items[i].k = key
    THEN LET i == CHOOSE j \in 1..Len(d.items) :
                    /\ d.items[j].k = key
                    /\ \A m \in (j + 1)..Len(d.items) : d.items[m].k # key
         IN  d.items[i].n
    ELSE JNull

(***************************************************************************)
(* Extracted fields: the dict a strategy returns.  Of the metadata keys    *)
(* (title, duration, description, teacherName, dateText, shiurURL), which  *)
(* all pass through the same way, title stands for the rest.               *)
(***************************************************************************)
EmptyFields ==
    [downloadURL |-> Absent, playerDownloadURL |-> Absent, shiurID |-> Absent, title |-> Absent]

\* results.get(key)
FieldGet(d, key) == IF d[key] = Absent THEN JNull ELSE d[key]

\* results.setdefault(key, value)
SetDefault(d, key, value) == IF d[key] = Absent THEN [d EXCEPT ![key] = value] ELSE d

\* bool(d) of a dict: it holds at least one key
DictTruthy(d) == \E key \in DOMAIN d : d[key] # Absent

\* a strategy's return value: extracted is None (isNone) or the dict d
NoExtraction(markers) == [isNone |-> TRUE, d |-> EmptyFields, markers |-> markers]
Extraction(d, markers) == [isNone |-> FALSE, d |-> d, markers |-> markers]

(***************************************************************************)
(* _walk_for_audio_fields  (download_podcasts.py 244-274)                  *)
(***************************************************************************)
\* the if/elif chain on one (key, value) member of a dict
WalkKeyRule(key, value, results) ==
    LET key_lower == Lower(key)
        isStr == value.t = "str"
    IN  IF key \in {"downloadURL", "playerDownloadURL"} /\ isStr
        THEN [results EXCEPT ![key] = value]
        ELSE IF Contains(key_lower, "downloadurl") /\ isStr
        THEN SetDefault(results, "downloadURL", value)
        ELSE IF key_lower = "shiurid"
        THEN SetDefault(results, "shiurID", JStr(PyStr(value)))
        ELSE IF key_lower \in {"title", "shiurtitle"} /\ isStr
        THEN SetDefault(results, "title", value)
        ELSE results

\* the unconditional '.mp3' rule that follows the chain
WalkMp3Rule(value, results) ==
    IF value.t = "str" /\ EndsWith(Lower(value.v), ".mp3")
    THEN SetDefault(results, "downloadURL", value)
    ELSE results

RECURSIVE WalkItems(_, _, _, _)
\* _walk_for_audio_fields(data, results): the results dict after the walk
WalkForAudioFields(data, results) ==
    IF data.t \in {"dict", "list"}
    THEN WalkItems(data.items, 1, data.t = "dict", results)
    ELSE results

WalkItems(items, i, isDict, results) ==
    IF i > Len(items) THEN results
    ELSE LET value == items[i].n
             r1 == IF isDict
                   THEN WalkMp3Rule(value, WalkKeyRule(items[i].k, value, results))
                   ELSE results
             r2 == WalkForAudioFields(value, r1)
         IN  WalkItems(items, i + 1, isDict, r2)

\* results.get('downloadURL') or results.get('playerDownloadURL')
HasAudioUrl(results) ==
    JTruthy(FieldGet(results, "downloadURL")) \/ JTruthy(FieldGet(results, "playerDownloadURL"))

(***************************************************************************)
(* A page body: the sequence, in document order, of the elements that the  *)
(* strategies' regular expressions can match.  An element is a record      *)
(*   kind   "lpd"     a `var lecturePlayerData = {...};` assignment        *)
(*          "script"  a <script type="application/json"> block; id is what *)
(*                    the pattern's id group captures, which is an id      *)
(*                    attribute written directly after `<script`, else ""  *)
(*          "snippet" a brace-delimited blob naming downloadURL/shiurID    *)
(*          "text"    an absolute URL ending in .mp3 in the page text      *)
(*          "audio" / "source"  a tag with a src attribute, quoted by q    *)
(*   valid  whether json.loads accepts the embedded text                   *)
(*   json   what json.loads returns when valid                             *)
(*   s      the URL text of a text element or the src of a tag             *)
(***************************************************************************)
Elem(kind, valid, id, json, s, q) ==
    [kind |-> kind, valid |-> valid, id |-> id, json |-> json, s |-> s, q |-> q]

LpdElem(data) == Elem("lpd", TRUE, "", data, "", "")
BadLpdElem == Elem("lpd", FALSE, "", JNull, "", "")
ScriptElem(id, payload) == Elem("script", TRUE, id, payload, "", "")
BadScriptElem(id) == Elem("script", FALSE, id, JNull, "", "")
SnippetElem(payload) == Elem("snippet", TRUE, "", payload, "", "")
BadSnippetElem == Elem("snippet", FALSE, "", JNull, "", "")
TextElem(url) == Elem("text", TRUE, "", JNull, url, "")
TagElem(kind, q, src) == Elem(kind, TRUE, "", JNull, src, q)

\* the elements of html_content of the given kinds, in document order
RECURSIVE ElemsOf(_, _)
ElemsOf(html_content, kinds) ==
    IF Len(html_content) = 0 THEN <<>>
    ELSE (IF Head(html_content).kind \in kinds THEN <<Head(html_content)>> ELSE <<>>)
         \o ElemsOf(Tail(html_content), kinds)

\* whether re.findall(r'https?://[^"\'\s>]+\.mp3(?:\?[^"\'\s>]*)?', ...) matches the
\* URL text (the model's URLs end in .mp3 when they hold it, so a match is the whole URL)
IsAbsoluteMp3(url) ==
    /\ StartsWith(Lower(url), "http://") \/ StartsWith(Lower(url), "https://")
    /\ Contains(Lower(url), ".mp3")

(***************************************************************************)
(* Strategy A  _extract_from_lecture_player_data (download_podcasts.py     *)
(* 277-305)                                                                *)
(***************************************************************************)
extract_from_lecture_player_data(html_content) ==
    LET matches == ElemsOf(html_content, {"lpd"})
        found == Len(matches) > 0
    IN  IF ~found
        THEN NoExtraction([lecturePlayerData_found |-> FALSE, json_error |-> FALSE])
        ELSE IF ~matches[1].valid
        THEN NoExtraction([lecturePlayerData_found |-> TRUE, json_error |-> TRUE])
        ELSE LET data == matches[1].json
             IN  Extraction(
                    [downloadURL |-> DictGet(data, "downloadURL"),
                     playerDownloadURL |-> DictGet(data, "playerDownloadURL"),
                     shiurID |-> DictGet(data, "shiurID"),
                     title |-> DictGet(data, "shiurTitle")],
                    [lecturePlayerData_found |-> TRUE, json_error |-> FALSE])

(***************************************************************************)
(* Strategy B  _extract_from_next_data (308-327), with                     *)
(* _extract_json_script_blocks (233-241)                                   *)
(***************************************************************************)
\* the first block, from index i on, whose walk yields an audio URL; 0 if none
RECURSIVE FirstAudioBlock(_, _)
FirstAudioBlock(blocks, i) ==
    IF i > Len(blocks) THEN 0
    ELSE IF blocks[i].valid /\ HasAudioUrl(WalkForAudioFields(blocks[i].json, EmptyFields))
    THEN i
    ELSE FirstAudioBlock(blocks, i + 1)

extract_from_next_data(html_content) ==
    LET blocks == ElemsOf(html_content, {"script"})
        next_blocks == SelectSeq(blocks, LAMBDA b : b.id = "__NEXT_DATA__")
        markers == [json_script_blocks |-> Len(blocks), next_data_blocks |-> Len(next_blocks)]
        w == FirstAudioBlock(next_blocks, 1)
    IN  IF w = 0 THEN NoExtraction(markers)
        ELSE Extraction(WalkForAudioFields(next_blocks[w].json, EmptyFields), markers)

(***************************************************************************)
(* Strategy C  _extract_from_script_blobs (330-355)                        *)
(***************************************************************************)
\* snippets[:30]
SnippetCap == 30

extract_from_script_blobs(html_content) ==
    LET all == ElemsOf(html_content, {"snippet"})
        snippets == SubSeq(all, 1, IF Len(all) < SnippetCap THEN Len(all) ELSE SnippetCap)
        w == FirstAudioBlock(snippets, 1)
        \* the page-wide scan also sees an absolute .mp3 URL that is a tag's src
        mp3_elems == SelectSeq(ElemsOf(html_content, {"text", "audio", "source"}),
                               LAMBDA e : IsAbsoluteMp3(e.s))
    IN  IF w # 0
        THEN Extraction(WalkForAudioFields(snippets[w].json, EmptyFields),
                        [mp3_match_count |-> 0])
        ELSE IF Len(mp3_elems) > 0
        THEN Extraction([EmptyFields EXCEPT !.downloadURL = JStr(mp3_elems[1].s),
                                            !.playerDownloadURL = JStr(mp3_elems[1].s)],
                        [mp3_match_count |-> Len(mp3_elems)])
        ELSE NoExtraction([mp3_match_count |-> 0])

(***************************************************************************)
(* Strategy D  _extract_from_audio_tags (358-384)                          *)
(***************************************************************************)
\* one re.findall: the src values of the tags of one kind and quoting
TagSrcs(html_content, kind, q) ==
    LET tags == SelectSeq(ElemsOf(html_content, {kind}), LAMBDA e : e.q = q)
    IN  [i \in 1..Len(tags) |-> tags[i].s]

extract_from_audio_tags(html_content) ==
    LET candidates == TagSrcs(html_content, "audio", "dq") \o TagSrcs(html_content, "audio", "sq")
                      \o TagSrcs(html_content, "source", "dq") \o TagSrcs(html_content, "source", "sq")
        markers == [audio_tag_count |-> Len(ElemsOf(html_content, {"audio"})),
                    source_tag_count |-> Len(ElemsOf(html_content, {"source"}))]
        mp3s == SelectSeq(candidates, LAMBDA url : Contains(Lower(url), ".mp3"))
    IN  IF Len(mp3s) > 0
        THEN Extraction([EmptyFields EXCEPT !.downloadURL = JStr(mp3s[1]),
                                            !.playerDownloadURL = JStr(mp3s[1])], markers)
        ELSE IF Len(candidates) > 0
        THEN Extraction([EmptyFields EXCEPT !.downloadURL = JStr(candidates[1]),
                                            !.playerDownloadURL = JStr(candidates[1])], markers)
        ELSE NoExtraction(markers)

(***************************************************************************)
(* _normalize_episode_data  (download_podcasts.py 387-401)                 *)
(***************************************************************************)
\* a or b on Python values
JOr(a, b) == IF JTruthy(a) THEN a ELSE b

normalize_episode_data(data, page_url) ==
    [downloadURL |-> JOr(FieldGet(data, "downloadURL"), FieldGet(data, "playerDownloadURL")),
     playerDownloadURL |-> JOr(FieldGet(data, "playerDownloadURL"), FieldGet(data, "downloadURL")),
     title |-> JOr(FieldGet(data, "title"), JNull),
     shiurID |-> IF FieldGet(data, "shiurID") # JNull
                 THEN JStr(PyStr(FieldGet(data, "shiurID")))
                 ELSE PyVal(extract_shiur_id(page_url))]

(***************************************************************************)
(* get_mp3_url_from_page  (download_podcasts.py 165-230)                   *)
(***************************************************************************)
\* the plausible slip of listing the raw-markup fallback first
StrategyNamesTagsFirst == <<"audioTags", "lecturePlayerData", "nextData", "scriptBlobs">>

\* the strategies list, in its order
StrategyNames == <<"lecturePlayerData", "nextData", "scriptBlobs", "audioTags">>

RunStrategy(strategy_name, html_content) ==
    CASE strategy_name = "lecturePlayerData" -> extract_from_lecture_player_data(html_content)
      [] strategy_name = "nextData" -> extract_from_next_data(html_content)
      [] strategy_name = "scriptBlobs" -> extract_from_script_blobs(html_content)
      [] OTHER -> extract_from_audio_tags(html_content)

\* `if extracted:` on a strategy's return value
ExtractedTruthy(r) == ~r.isNone /\ DictTruthy(r.d)

\* the plausible slip of keeping only the markers of the strategy that ended the loop
MarkersOfLast(n, html_content) ==
    [name \in {StrategyNames[n]} |-> RunStrategy(name, html_content).markers]

\* strategy_markers after the strategies 1..n have run
MarkersUpTo(n, html_content) ==
    [name \in {StrategyNames[k] : k \in 1..n} |-> RunStrategy(name, html_content).markers]

\* the for loop over strategies, from the i-th strategy on
RECURSIVE StrategyLoop(_, _, _)
StrategyLoop(i, html_content, page_url) ==
    IF i > Len(StrategyNames)
    THEN [failure_reason |-> "no_supported_audio_payload_found",
          strategies_attempted |-> StrategyNames,
          strategy_markers |-> MarkersUpTo(Len(StrategyNames), html_content),
          downloadURL |-> JNull,
          playerDownloadURL |-> JNull,
          shiurID |-> PyVal(extract_shiur_id(page_url))]
    ELSE LET r == RunStrategy(StrategyNames[i], html_content)
             normalized == normalize_episode_data(r.d, page_url)
         IN  IF ExtractedTruthy(r)
             THEN [downloadURL |-> normalized.downloadURL,
                   playerDownloadURL |-> normalized.playerDownloadURL,
                   title |-> normalized.title,
                   shiurID |-> normalized.shiurID,
                   strategies_attempted |-> SubSeq(StrategyNames, 1, i),
                   strategy_markers |-> MarkersUpTo(i, html_content)]
             ELSE StrategyLoop(i + 1, html_content, page_url)

\* the plausible slip of an except branch that does not look at the URL
PageFetchErrorWithoutId(e, page_url) ==
    [failure_reason |-> "page_fetch_error: " \o e,
     strategies_attempted |-> <<>>,
     strategy_markers |-> <<>>,
     downloadURL |-> JNull,
     playerDownloadURL |-> JNull,
     shiurID |-> JNull]

\* the except branch: session.get or raise_for_status raised e
PageFetchError(e, page_url) ==
    [failure_reason |-> "page_fetch_error: " \o e,
     strategies_attempted |-> <<>>,
     strategy_markers |-> <<>>,
     downloadURL |-> JNull,
     playerDownloadURL |-> JNull,
     shiurID |-> PyVal(extract_shiur_id(page_url))]

\* response is [ok, error, html_content]: the outcome of session.get(page_url)
get_mp3_url_from_page(page_url, response) ==
    IF response.ok
    THEN StrategyLoop(1, response.html_content, page_url)
    ELSE PageFetchError(response.error, page_url)

(***************************************************************************)
(* Inputs of the model                                                     *)
(***************************************************************************)
\* lecturePlayerData objects
LpdFull ==
    JDict(<<KV("shiurTitle", JStr("T")), KV("shiurID", JInt("7")),
            KV("downloadURL", JStr("https://cdn/a.mp3")),
            KV("playerDownloadURL", JStr("https://cdn/p.mp3"))>>)
LpdPlayerOnly == JDict(<<KV("playerDownloadURL", JStr("https://cdn/p.mp3"))>>)
LpdNoUrl == JDict(<<KV("shiurTitle", JStr("T")), KV("shiurID", JInt("7"))>>)
LpdEmptyUrl == JDict(<<KV("downloadURL", JStr("")), KV("playerDownloadURL", JNull)>>)

\* JSON payloads of script blocks and blobs
PayloadNested ==
    JDict(<<KV("props", JDict(<<KV("shiurID", JInt("9")),
                                KV("downloadURL", JStr("https://cdn/b.mp3"))>>))>>)
PayloadFuzzyKey == JDict(<<KV("audioDownloadUrl", JStr("https://cdn/c"))>>)
PayloadMp3Value == JDict(<<KV("file", JStr("/m/d.MP3"))>>)
PayloadListOnly == JDict(<<KV("files", JList(<<KV("", JStr("/m/e.mp3"))>>))>>)
PayloadNoAudio == JDict(<<KV("title", JStr("T")), KV("shiurID", JStr("9"))>>)

Elements ==
    {LpdElem(LpdFull), LpdElem(LpdPlayerOnly), LpdElem(LpdNoUrl), LpdElem(LpdEmptyUrl), BadLpdElem,
     ScriptElem("__NEXT_DATA__", PayloadNested), ScriptElem("__NEXT_DATA__", PayloadListOnly),
     ScriptElem("__NEXT_DATA__", PayloadMp3Value), ScriptElem("ld", PayloadNested),
     BadScriptElem("__NEXT_DATA__"),
     SnippetElem(PayloadFuzzyKey), SnippetElem(PayloadNoAudio), BadSnippetElem,
     TextElem("https://cdn/t.mp3"),
     TagElem("audio", "dq", "/m/a.mp3"), TagElem("audio", "sq", "/stream/1"),
     TagElem("source", "dq", "https://cdn/s.mp3"), TagElem("source", "sq", "/m/s.mp3")}

\* the longest page body, in elements
MaxElems == 2

Pages == UNION {[1..n -> Elements] : n \in 0..MaxElems}

\* detail-page URLs: the three documented shapes and one without an identifier
PageUrls ==
    {"https://site/lectures/details?shiurID=1159876", "https://site/lectures/1160274/",
     "https://site/lectures/lecture.cfm/1160032", "https://site/about"}

\* what session.get / raise_for_status raise
FetchErrors == {"timeout", "404 Client Error"}

Responses ==
    {[ok |-> TRUE, error |-> "", html_content |-> h] : h \in Pages}
    \cup {[ok |-> FALSE, error |-> e, html_content |-> <<>>] : e \in FetchErrors}

(***************************************************************************)
(* extract_episode_links  (download_podcasts.py 133-162)                   *)
(* rss_root is the sequence of the document's item elements, each a record *)
(* [title_elem, link_elem, title_text, link_text]: whether the child is    *)
(* there, and its .text (None for an empty element).                       *)
(***************************************************************************)
\* s.find(lit, from), 1-based, 0 when absent
FindFrom(s, lit, from) ==
    LET rest == SubSeq(s, from, Len(s))
        k == Find(rest, lit)
    IN  IF from > Len(s) + 1 \/ k = 0 THEN 0 ELSE from + k - 1

\* re.sub(r'<!\[CDATA\[(.*?)\]\]>', r'\1', text)
RECURSIVE StripCdata(_)
StripCdata(text) ==
    LET a == Find(text, "<![CDATA[")
        b == IF a = 0 THEN 0 ELSE FindFrom(text, "]]>", a + 9)
    IN  IF a = 0 \/ b = 0 THEN text
        ELSE SubSeq(text, 1, a - 1) \o SubSeq(text, a + 9, b - 1)
             \o StripCdata(SubSeq(text, b + 3, Len(text)))

\* str.strip() (the model's whitespace is the space)
RECURSIVE Strip(_)
Strip(s) ==
    IF Len(s) = 0 THEN s
    ELSE IF CharAt(s, 1) = " " THEN Strip(SubSeq(s, 2, Len(s)))
    ELSE IF CharAt(s, Len(s)) = " " THEN Strip(SubSeq(s, 1, Len(s) - 1))
    ELSE s

RssItem(title_text, link_text) ==
    [title_elem |-> TRUE, link_elem |-> TRUE, title_text |-> title_text, link_text |-> link_text]

RECURSIVE extract_episode_links(_)
extract_episode_links(rss_root) ==
    IF Len(rss_root) = 0 THEN <<>>
    ELSE LET item == Head(rss_root)
             title == Strip(StripCdata(IF item.title_text = None THEN "" ELSE item.title_text))
             link == Strip(StripCdata(IF item.link_text = None THEN "" ELSE item.link_text))
         IN  (IF item.title_elem /\ item.link_elem /\ link # ""
              THEN <<<<title, link>>>>
              ELSE <<>>)
             \o extract_episode_links(Tail(rss_root))

(***************************************************************************)
(* Reconciliation: the filter loop of main (download_podcasts.py 604-610)  *)
(* and of check_feed (app.py 213-218), the same code in both               *)
(***************************************************************************)
\* the plausible slip `if not shiur_id or shiur_id in downloaded: continue`
RECURSIVE FilterNewEpisodesDropsUnknown(_, _)
FilterNewEpisodesDropsUnknown(episodes, downloaded) ==
    IF Len(episodes) = 0 THEN <<>>
    ELSE LET title == Head(episodes)[1]
             page_url == Head(episodes)[2]
             shiur_id == extract_shiur_id(page_url)
         IN  (IF ~Truthy(shiur_id) \/ shiur_id \in downloaded
              THEN <<>>
              ELSE <<<<title, page_url, shiur_id>>>>)
             \o FilterNewEpisodesDropsUnknown(Tail(episodes), downloaded)

\* the plausible slip of testing the page URL, not the identifier, against the set
RECURSIVE FilterNewEpisodesByUrl(_, _)
FilterNewEpisodesByUrl(episodes, downloaded) ==
    IF Len(episodes) = 0 THEN <<>>
    ELSE LET title == Head(episodes)[1]
             page_url == Head(episodes)[2]
             shiur_id == extract_shiur_id(page_url)
         IN  (IF Truthy(shiur_id) /\ page_url \in downloaded
              THEN <<>>
              ELSE <<<<title, page_url, shiur_id>>>>)
             \o FilterNewEpisodesByUrl(Tail(episodes), downloaded)

\* new_episodes after the loop: (title, page_url, shiur_id) for every episode
\* not skipped by `if shiur_id and shiur_id in downloaded: continue`
RECURSIVE FilterNewEpisodes(_, _)
FilterNewEpisodes(episodes, downloaded) ==
    IF Len(episodes) = 0 THEN <<>>
    ELSE LET title == Head(episodes)[1]
             page_url == Head(episodes)[2]
             shiur_id == extract_shiur_id(page_url)
         IN  (IF Truthy(shiur_id) /\ shiur_id \in downloaded
              THEN <<>>
              ELSE <<<<title, page_url, shiur_id>>>>)
             \o FilterNewEpisodes(Tail(episodes), downloaded)

(***************************************************************************)
(* The local Tracking Record file: load_downloaded_shiurim and             *)
(* save_downloaded_shiurim  (download_podcasts.py 31-67)                   *)
(* A file is [exists, parses, data]: parses tells whether json.load        *)
(* accepts its text, data is the value json.load returns then.             *)
(***************************************************************************)
\* the code points of the model's characters, in increasing order
CharOrder ==
    " \"'+-./0123456789:<=>?ABCDEFGHIJKLMNOPQRSTUVWXYZ[\\]_abcdefghijklmnopqrstuvwxyz"

\* a < b on str (Python compares code point by code point)
RECURSIVE StrLess(_, _)
StrLess(a, b) ==
    IF Len(b) = 0 THEN FALSE
    ELSE IF Len(a) = 0 THEN TRUE
    ELSE IF CharAt(a, 1) = CharAt(b, 1) THEN StrLess(SubSeq(a, 2, Len(a)), SubSeq(b, 2, Len(b)))
    ELSE Find(CharOrder, CharAt(a, 1)) < Find(CharOrder, CharAt(b, 1))

\* sorted(list(ids))
Sorted(ids) ==
    CHOOSE seq \in [1..Cardinality(ids) -> ids] :
        \A i, j \in 1..Cardinality(ids) : i < j => StrLess(seq[i], seq[j])

Range(seq) == {seq[i] : i \in 1..Len(seq)}

\* the text json.dump writes for a str, between its quotation marks: a
\* quotation mark and a backslash each get a backslash in front
RECURSIVE JsonEscape(_)
JsonEscape(s) ==
    IF Len(s) = 0 THEN ""
    ELSE (IF CharAt(s, 1) \in {"\"", "\\"} THEN "\\" \o CharAt(s, 1) ELSE CharAt(s, 1))
         \o JsonEscape(SubSeq(s, 2, Len(s)))

\* a reader that leaves the text as it is written
JsonUnescapeNothing(text) == text

\* the str json.load reads from such a text: the character after a backslash
\* is taken as it is
RECURSIVE JsonUnescape(_)
JsonUnescape(text) ==
    IF Len(text) = 0 THEN ""
    ELSE IF CharAt(text, 1) = "\\" /\ Len(text) >= 2
    THEN CharAt(text, 2) \o JsonUnescape(SubSeq(text, 3, Len(text)))
    ELSE CharAt(text, 1) \o JsonUnescape(SubSeq(text, 2, Len(text)))

\* the decimal text of n, at least `width` digits wide: %Y, %m, %d, %H, %M, %S
RECURSIVE ZeroPadded(_, _)
ZeroPadded(n, width) ==
    IF n < 10 /\ width <= 1 THEN CharAt("0123456789", n + 1)
    ELSE ZeroPadded(n \div 10, width - 1) \o CharAt("0123456789", (n % 10) + 1)

\* time.strftime('%Y-%m-%d %H:%M:%S') at the local time `now`
Strftime(now) ==
    ZeroPadded(now.year, 4) \o "-" \o ZeroPadded(now.mon, 2) \o "-" \o ZeroPadded(now.mday, 2)
    \o " " \o ZeroPadded(now.hour, 2) \o ":" \o ZeroPadded(now.min, 2) \o ":"
    \o ZeroPadded(now.sec, 2)

\* the local time of the runs
Now == [year |-> 2026, mon |-> 1, mday |-> 1, hour |-> 0, min |-> 0, sec |-> 0]

NoFile == [exists |-> FALSE, parses |-> FALSE, data |-> JNull]
CorruptFile == [exists |-> TRUE, parses |-> FALSE, data |-> JNull]
\* a file whose text json.load accepts, by the value it returns
JsonFile(data) == [exists |-> TRUE, parses |-> TRUE, data |-> data]

\* an element of set(...) as the model writes it: a str is itself, an int or
\* None is set apart from every str
SetMember(n) == IF n.t = "str" THEN n.v ELSE "<" \o n.t \o " " \o n.v \o ">"

\* set(value) for the value of data.get('downloaded_shiurim', []): the members
\* of a list, the characters of a str, the keys of a dict; raises is TypeError
\* (a value that is not iterable, a list member that is not hashable)
SetOf(value) ==
    CASE value.t = "list" ->
           [raises |-> \E i \in 1..Len(value.items) : value.items[i].n.t \in {"list", "dict"},
            set |-> {SetMember(value.items[i].n) : i \in 1..Len(value.items)}]
      [] value.t = "str" ->
           [raises |-> FALSE, set |-> {CharAt(value.v, i) : i \in 1..Len(value.v)}]
      [] value.t = "dict" ->
           [raises |-> FALSE, set |-> {value.items[i].k : i \in 1..Len(value.items)}]
      [] OTHER -> [raises |-> TRUE, set |-> {}]

\* load_downloaded_shiurim(db_file): every exception of the try block is
\* caught and gives set()
load_downloaded_shiurim(file) ==
    IF ~file.exists THEN {}
    ELSE IF ~file.parses THEN {}
    ELSE IF file.data.t # "dict" THEN {}
    ELSE IF \A i \in 1..Len(file.data.items) : file.data.items[i].k # "downloaded_shiurim"
    THEN {}
    ELSE LET made == SetOf(DictGet(file.data, "downloaded_shiurim"))
         IN  IF made.raises THEN {} ELSE made.set

\* a save that writes an empty list whatever it is given
SaveEmptyList(ids, now) ==
    [exists |-> TRUE, parses |-> TRUE,
     data |-> JDict(<<KV("downloaded_shiurim", JList(<<>>)),
                      KV("last_updated", JStr(Strftime(now)))>>)]

\* the file after save_downloaded_shiurim(db_file, ids) at local time `now`:
\* what json.load reads from the text json.dump wrote
save_downloaded_shiurim(ids, now) ==
    LET listed == Sorted(ids)
    IN  [exists |-> TRUE, parses |-> TRUE,
         data |-> JDict(<<KV("downloaded_shiurim",
                             JList([i \in 1..Len(listed) |->
                                       KV("", JStr(JsonUnescape(JsonEscape(listed[i]))))])),
                          KV("last_updated", JStr(JsonUnescape(JsonEscape(Strftime(now)))))>>)]

(***************************************************************************)
(* sanitize_filename  (download_podcasts.py 404-460), on the ASCII         *)
(* characters; of the quotation marks it replaces, the model has U+0022    *)
(***************************************************************************)
\* The passes below work on a str by halves, so that a title longer than the
\* length limit is handled in few nested steps.
\* the two replace loops and re.sub(r'[<>/\\|?*]', '', ...) on one character
ReplaceAndRemoveChar(c) ==
    IF c = "\"" THEN "'"
    ELSE IF c = ":" THEN "-"
    ELSE IF c \in {"<", ">", "/", "\\", "|", "?", "*"} THEN ""
    ELSE c

\* the two replace loops without the re.sub that removes characters
RECURSIVE ReplaceOnly(_)
ReplaceOnly(s) ==
    IF Len(s) = 0 THEN ""
    ELSE IF Len(s) = 1 THEN (IF s = "\"" THEN "'" ELSE IF s = ":" THEN "-" ELSE s)
    ELSE ReplaceOnly(SubSeq(s, 1, Len(s) \div 2))
         \o ReplaceOnly(SubSeq(s, Len(s) \div 2 + 1, Len(s)))

\* the two replace loops and re.sub(r'[<>/\\|?*]', '', ...)
RECURSIVE ReplaceAndRemove(_)
ReplaceAndRemove(s) ==
    IF Len(s) = 0 THEN ""
    ELSE IF Len(s) = 1 THEN ReplaceAndRemoveChar(s)
    ELSE ReplaceAndRemove(SubSeq(s, 1, Len(s) \div 2))
         \o ReplaceAndRemove(SubSeq(s, Len(s) \div 2 + 1, Len(s)))

\* s[lo..hi] without the characters c that follow another c in s
RECURSIVE CollapseBetween(_, _, _, _)
CollapseBetween(s, c, lo, hi) ==
    IF lo > hi THEN ""
    ELSE IF lo = hi
    THEN (IF lo > 1 /\ CharAt(s, lo) = c /\ CharAt(s, lo - 1) = c THEN "" ELSE CharAt(s, lo))
    ELSE CollapseBetween(s, c, lo, (lo + hi) \div 2)
         \o CollapseBetween(s, c, (lo + hi) \div 2 + 1, hi)

\* re.sub(r'\s+', ' ', ...) for c = " " and re.sub(r'-+', '-', ...) for c = "-"
CollapseRuns(s, c) == CollapseBetween(s, c, 1, Len(s))

\* filename.strip('. -')
StripDotSpaceDash(s) ==
    LET kept == {i \in 1..Len(s) : CharAt(s, i) \notin {".", " ", "-"}}
    IN  IF kept = {} THEN ""
        ELSE SubSeq(s, CHOOSE i \in kept : \A j \in kept : i <= j,
                       CHOOSE i \in kept : \A j \in kept : j <= i)

\* s.rfind('.'), 1-based, 0 when absent
LastDot(s) ==
    IF Contains(s, ".")
    THEN CHOOSE i \in 1..Len(s) : CharAt(s, i) = "." /\ \A j \in (i + 1)..Len(s) : CharAt(s, j) # "."
    ELSE 0

\* the length limit of sanitize_filename
MaxFilenameLen == 180

\* the `if len(filename) > 180` block
TrimToLength(filename) ==
    IF Len(filename) > MaxFilenameLen
    THEN LET d == LastDot(filename)
             name == SubSeq(filename, 1, d - 1)
             ext == SubSeq(filename, d + 1, Len(filename))
             keep == MaxFilenameLen - Len(ext) - 1
         IN  IF d # 0
             \* name[:keep]: a negative keep counts from the end
             THEN SubSeq(name, 1, IF keep >= 0 THEN keep ELSE Len(name) + keep) \o "." \o ext
             ELSE SubSeq(filename, 1, MaxFilenameLen)
    ELSE filename

sanitize_filename(filename) ==
    LET cleaned == StripDotSpaceDash(CollapseRuns(CollapseRuns(ReplaceAndRemove(filename), " "), "-"))
        trimmed == TrimToLength(cleaned)
    IN  IF trimmed = "" \/ trimmed = "." THEN "untitled" ELSE trimmed

(***************************************************************************)
(* download_mp3  (download_podcasts.py 463-524)                            *)
(***************************************************************************)
\* urlparse(mp3_url).path: after the scheme and host, up to the first '?' or '#'
UrlPath(url) ==
    LET h == Find(url, "#")
        noFrag == IF h = 0 THEN url ELSE SubSeq(url, 1, h - 1)
        q == Find(noFrag, "?")
        noQuery == IF q = 0 THEN noFrag ELSE SubSeq(noFrag, 1, q - 1)
        a == Find(noQuery, "://")
        afterHost == IF a = 0 THEN 1 ELSE FindFrom(noQuery, "/", a + 3)
    IN  IF afterHost = 0 THEN "" ELSE SubSeq(noQuery, afterHost, Len(noQuery))

\* os.path.basename(path)
Basename(path) ==
    IF Contains(path, "/")
    THEN LET i == CHOOSE k \in 1..Len(path) :
                    CharAt(path, k) = "/" /\ \A j \in (k + 1)..Len(path) : CharAt(path, j) # "/"
         IN  SubSeq(path, i + 1, Len(path))
    ELSE path

\* the name of the file download_mp3 writes in output_dir
Mp3Filename(mp3_url, title) ==
    LET url_filename == Basename(UrlPath(mp3_url))
    IN  IF url_filename # "" /\ EndsWith(url_filename, ".mp3")
        THEN sanitize_filename(url_filename)
        ELSE sanitize_filename(title) \o ".mp3"

\* a download_mp3 without the os.path.exists test of lines 490-492
DownloadMp3Always(mp3_url, title, files, media_ok) ==
    LET filename == Mp3Filename(mp3_url, title)
    IN  IF UrlparseRaises(mp3_url)
        THEN [ok |-> FALSE, files |-> files, wrote |-> FALSE, raised |-> TRUE,
              requested |-> FALSE]
        ELSE IF media_ok
        THEN [ok |-> TRUE, files |-> files \cup {filename}, wrote |-> TRUE, raised |-> FALSE,
              requested |-> TRUE]
        ELSE [ok |-> FALSE, files |-> files \ {filename}, wrote |-> FALSE, raised |-> FALSE,
              requested |-> TRUE]

\* download_mp3(mp3_url, title, output_dir) with the directory holding `files`,
\* when the media request succeeds (media_ok) or raises: [ok, files, wrote,
\* raised, requested]; requested tells whether session.get(mp3_url) was
\* called.  An exception raised before `filepath` is assigned (line 487)
\* reaches the handler, whose os.path.exists(filepath) then raises
\* UnboundLocalError out of the function: raised.
download_mp3(mp3_url, title, files, media_ok) ==
    LET filename == Mp3Filename(mp3_url, title)
    IN  IF UrlparseRaises(mp3_url)
        THEN [ok |-> FALSE, files |-> files, wrote |-> FALSE, raised |-> TRUE,
              requested |-> FALSE]
        ELSE IF filename \in files
        THEN [ok |-> TRUE, files |-> files, wrote |-> FALSE, raised |-> FALSE,
              requested |-> FALSE]
        ELSE IF media_ok
        THEN [ok |-> TRUE, files |-> files \cup {filename}, wrote |-> TRUE, raised |-> FALSE,
              requested |-> TRUE]
        ELSE [ok |-> FALSE, files |-> files, wrote |-> FALSE, raised |-> FALSE,
              requested |-> TRUE]

(***************************************************************************)
(* The remote folder: upload_file_to_drive (google_drive_auth.py 319-363), *)
(* list_files_in_folder and get_uploaded_shiur_ids (399-461), and          *)
(* download_and_upload_to_drive (app.py 82-157).                           *)
(* A folder is the sequence of its files [name, description].              *)
(***************************************************************************)
\* str.replace(lit, '')
RECURSIVE RemoveAll(_, _)
RemoveAll(s, lit) ==
    LET a == Find(s, lit)
    IN  IF a = 0 THEN s
        ELSE SubSeq(s, 1, a - 1) \o RemoveAll(SubSeq(s, a + Len(lit), Len(s)), lit)

\* the identifier get_uploaded_shiur_ids reads from one description, None if none
ShiurIdOfDescription(desc) ==
    IF Truthy(desc) /\ StartsWith(desc, "shiurID:")
    THEN LET shiur_id == Strip(RemoveAll(desc, "shiurID:"))
         IN  IF shiur_id # "" THEN shiur_id ELSE None
    ELSE None

\* get_uploaded_shiur_ids(folder_id) over what list_files_in_folder returned
get_uploaded_shiur_ids(files) ==
    {ShiurIdOfDescription(files[i].description) : i \in 1..Len(files)} \ {None}

\* list_files_in_folder(folder_id): every page of the listing, or [] when the
\* request raises
list_files_in_folder(folder, listing_ok) == IF listing_ok THEN folder ELSE <<>>

\* download_and_upload_to_drive(mp3_url, title, folder_id, shiur_id) when the
\* media request and the upload succeed or fail: [ok, error_stage, folder]
download_and_upload_to_drive(title, folder, shiur_id, media_ok, upload_ok) ==
    LET filename == sanitize_filename(title) \o ".mp3"
        description == IF Truthy(shiur_id) THEN "shiurID:" \o shiur_id ELSE None
    IN  IF ~media_ok
        THEN [ok |-> FALSE, error_stage |-> "download", folder |-> folder]
        ELSE IF ~upload_ok
        THEN [ok |-> FALSE, error_stage |-> "upload", folder |-> folder]
        ELSE [ok |-> TRUE, error_stage |-> None,
              folder |-> Append(folder, [name |-> filename, description |-> description])]

(***************************************************************************)
(* The source site, as the runs see it                                     *)
(***************************************************************************)
\* the RSS items of the model: two links to the same lecture, a second
\* lecture, and a link that carries no identifier
FeedItems ==
    {RssItem("Shiur A", "https://site/lectures/1160274/"),
     RssItem("Shiur A again", "https://site/lectures/details?shiurID=1160274"),
     RssItem("Shiur B", "https://site/lectures/lecture.cfm/1160032"),
     RssItem("Shiur C", "https://site/about")}

\* the longest feed, in items
MaxFeedLen == 2

Feeds == UNION {[1..n -> FeedItems] : n \in 0..MaxFeedLen}

\* the feed the site serves, in its order
SiteFeed ==
    <<RssItem("Shiur A", "https://site/lectures/1160274/"),
      RssItem("Shiur A again", "https://site/lectures/details?shiurID=1160274"),
      RssItem("Shiur C", "https://site/about")>>

\* what a run can be given of it: any stretch of at most MaxFeedLen items
SiteFeeds ==
    {SubSeq(SiteFeed, a, b) : a \in 1..(Len(SiteFeed) + 1), b \in 0..Len(SiteFeed)}
    \cap Feeds

\* the lecture's identifier on the site: the one in its link, when the link has one
SiteShiurId(link) ==
    IF extract_shiur_id(link) # None THEN extract_shiur_id(link) ELSE "1159876"

\* what the site serves for a link: the player data with a direct .mp3 URL,
\* the same with a stream URL that has no file name, the player data of a
\* lecture whose audio is withheld, and a page with no audio at all
SitePages(link) ==
    LET id == SiteShiurId(link)
        meta == <<KV("shiurTitle", JStr("T")), KV("shiurID", JInt(id))>>
    IN  {<<LpdElem(JDict(meta \o <<KV("downloadURL", JStr("https://cdn/" \o id \o ".mp3"))>>))>>,
         <<LpdElem(JDict(meta \o <<KV("downloadURL", JStr("https://cdn/stream/" \o id))>>))>>,
         <<LpdElem(JDict(meta))>>,
         <<>>}

SiteResponses(link) ==
    {[ok |-> TRUE, error |-> "", html_content |-> h] : h \in SitePages(link)}
    \cup {[ok |-> FALSE, error |-> "timeout", html_content |-> <<>>]}

(***************************************************************************)
(* State                                                                   *)
(***************************************************************************)
VARIABLES
    \* one call of get_mp3_url_from_page
    page_url,            \* its argument
    response,            \* what session.get(page_url) gives
    episode_data,        \* the returned dict
    returned,            \* whether the call has returned
    \* reconciliation on its own
    recon_episodes,      \* E: the episode list
    archived_ids,        \* S: the archived identifiers
    first_new,           \* the new episodes of the first run
    second_new,          \* the new episodes of the second run
    recon_pc,            \* "start", "first", "second"
    \* what outlives a run
    rss_root,            \* the feed document's items
    db_file,             \* the local Tracking Record file
    local_files,         \* the names of the files in the output directory
    drive_folder,        \* the files of the remote target folder
    \* a run in progress
    pc,                  \* "idle", "loop"
    downloaded_shiurim,  \* the in-memory identifier set
    episodes,            \* the (title, page_url, shiur_id) list the loop walks
    idx,                 \* how many of them have been processed
    successful,
    failed,
    \* the web app's session
    is_drive_mode,
    batch_results,       \* st.session_state.batch_results for the selected feed
    \* history, for the properties
    archive_log,         \* one entry per episode stored (file written or uploaded)
    run_no,              \* download runs started
    checks,              \* feed checks made
    run_done_ids,        \* identifiers whose archive call succeeded in this run
    \* the command-line program (download_podcasts.py main)
    limit,               \* args.limit, any integer; 0 when the option is not given
    outcome,             \* how the last process ended; "none" before the first
    feed_fetch,          \* "ok" or "failed": the RSS request of the last process
    page_fetches,        \* detail pages requested by the last process
    processed,           \* the positions of new_episodes its loop has handled
    \* one call of a function on its own
    call_arg,            \* the argument
    call_result,         \* what the call returned
    call_pc,             \* "start", then one value per call made
    \* the Drive folder tree
    drive_tree,          \* the folders of the Drive account, each [id, name, parent]
    resolved,            \* one entry per resolve_drive_folder call: arguments and result
    \* the politeness delay
    slept,               \* whether the last iteration of the running loop ended with time.sleep(delay)
    \* the Google sign-in (google_drive_auth.py)
    google_authenticated, \* st.session_state.google_authenticated, FALSE when absent
    google_credentials,  \* st.session_state.google_credentials, None when absent
    cookie,              \* the google_credentials cookie of the browser, None when there is none
    auth_log             \* the calls made on the authentication module with their results

extractVars == <<page_url, response, episode_data, returned>>
reconVars == <<recon_episodes, archived_ids, first_new, second_new, recon_pc>>
envVars == <<rss_root, db_file, local_files, drive_folder>>
runVars == <<pc, downloaded_shiurim, episodes, idx, successful, failed>>
appVars == <<is_drive_mode, batch_results>>
histVars == <<archive_log, run_no, checks, run_done_ids>>
cliVars == <<limit, outcome, feed_fetch, page_fetches, processed>>
callVars == <<call_arg, call_result, call_pc>>

driveVars == <<drive_tree, resolved>>

delayVars == <<slept>>

authVars == <<google_authenticated, google_credentials, cookie, auth_log>>

vars == <<extractVars, reconVars, envVars, runVars, appVars, histVars, cliVars, callVars,
         driveVars,
         delayVars,
         authVars>>

NoData == [failure_reason |-> "not_called"]
NoBatchResults == [checked |-> FALSE, total_episodes |-> 0, new_episodes |-> <<>>,
                   uploaded_shiur_ids |-> {}, target_folder_id |-> None]

\* the parts of the state a specification does not use, at rest
ExtractAtRest ==
    /\ page_url = "" /\ response = [ok |-> FALSE, error |-> "", html_content |-> <<>>]
    /\ episode_data = NoData /\ returned = FALSE
ReconAtRest ==
    /\ recon_episodes = <<>> /\ archived_ids = {} /\ first_new = <<>> /\ second_new = <<>>
    /\ recon_pc = "start"
EnvAtRest ==
    /\ rss_root = <<>> /\ db_file = NoFile /\ local_files = {} /\ drive_folder = <<>>
RunAtRest ==
    /\ pc = "idle" /\ downloaded_shiurim = {} /\ episodes = <<>> /\ idx = 0
    /\ successful = 0 /\ failed = 0
AppAtRest == is_drive_mode = FALSE /\ batch_results = NoBatchResults
HistAtRest ==
    /\ archive_log = <<>> /\ run_no = 0 /\ checks = 0 /\ run_done_ids = {}
CliAtRest ==
    /\ limit = 0 /\ outcome = "none" /\ feed_fetch = "ok" /\ page_fetches = 0
    /\ processed = <<>>
DriveAtRest == drive_tree = {} /\ resolved = <<>>
DelayAtRest == slept = FALSE
AuthAtRest ==
    /\ google_authenticated = FALSE /\ google_credentials = None /\ cookie = None
    /\ auth_log = <<>>
CallAtRest == call_arg = "" /\ call_result = "" /\ call_pc = "start"

(***************************************************************************)
(* SpecExtract: one call of get_mp3_url_from_page on any page of the model *)
(***************************************************************************)
InitExtract ==
    /\ page_url \in PageUrls
    /\ response \in Responses
    /\ episode_data = NoData
    /\ returned = FALSE
    /\ ReconAtRest /\ AuthAtRest /\ DelayAtRest /\ DriveAtRest /\ EnvAtRest /\ RunAtRest /\ AppAtRest /\ HistAtRest
    /\ CliAtRest /\ CallAtRest

\* the call, on a page that was fetched
ExtractFromPage ==
    /\ ~returned
    /\ response.ok
    /\ episode_data' = get_mp3_url_from_page(page_url, response)
    /\ returned' = TRUE
    /\ UNCHANGED <<page_url, response, reconVars, envVars, runVars, appVars, histVars, cliVars, callVars,
                   driveVars, delayVars, authVars>>

\* the call, when the fetch raises
ExtractFetchFails ==
    /\ ~returned
    /\ ~response.ok
    /\ episode_data' = get_mp3_url_from_page(page_url, response)
    /\ returned' = TRUE
    /\ UNCHANGED <<page_url, response, reconVars, envVars, runVars, appVars, histVars, cliVars, callVars,
                   driveVars, delayVars, authVars>>

NextExtract == ExtractFromPage \/ ExtractFetchFails

SpecExtract == InitExtract /\ [][NextExtract]_vars

(***************************************************************************)
(* Properties of the extractor                                             *)
(***************************************************************************)
HasKey(d, key) == key \in DOMAIN d

\* the fetched page, and the strategies that find a usable audio reference on it
FetchedPage == response.html_content
FindsAudio(name) ==
    LET r == RunStrategy(name, FetchedPage) IN ~r.isNone /\ HasAudioUrl(r.d)
FirstFindingAudio ==
    IF \E k \in 1..4 : FindsAudio(StrategyNames[k])
    THEN CHOOSE k \in 1..4 :
            FindsAudio(StrategyNames[k]) /\ \A j \in 1..(k - 1) : ~FindsAudio(StrategyNames[j])
    ELSE 0
LpdElems == ElemsOf(FetchedPage, {"lpd"})
TagElems == ElemsOf(FetchedPage, {"audio", "source"})

\* C1: after a successful fetch the chain stops exactly at the first strategy
\* whose extraction has a usable audio reference; a strategy whose extraction
\* carries neither URL does not end it, so the strategies attempted are those
\* up to that first one (all four when there is none).
C1_ChainStopsAtFirstUsable ==
    returned /\ response.ok =>
        episode_data.strategies_attempted =
            IF FirstFindingAudio = 0 THEN <<"lecturePlayerData", "nextData", "scriptBlobs", "audioTags">>
            ELSE SubSeq(<<"lecturePlayerData", "nextData", "scriptBlobs", "audioTags">>, 1, FirstFindingAudio)

\* C2: on a declared success (a result without failure_reason) download_url
\* and player_download_url are never both null.
C2_SuccessHasAudioUrl ==
    returned /\ ~HasKey(episode_data, "failure_reason") =>
        ~(episode_data.downloadURL = JNull /\ episode_data.playerDownloadURL = JNull)

\* C3: on a fetched page where no strategy finds a usable audio reference,
\* the result is failure_reason = "no_supported_audio_payload_found" with all
\* four strategy names, in order, as attempted.
C3_ExhaustionIsReported ==
    returned /\ response.ok /\ FirstFindingAudio = 0 =>
        /\ HasKey(episode_data, "failure_reason")
        /\ episode_data.failure_reason = "no_supported_audio_payload_found"
        /\ episode_data.strategies_attempted = <<"lecturePlayerData", "nextData", "scriptBlobs", "audioTags">>

ArchivedIdPool == {"1160274", "1160032", "1159876"}

\* the identifiers of a list of (title, page_url, shiur_id)
IdsOf(new) == {new[i][3] : i \in 1..Len(new)} \ {None}

InitReconcile ==
    /\ recon_episodes \in {extract_episode_links(f) : f \in Feeds}
    /\ archived_ids \in SUBSET ArchivedIdPool
    /\ first_new = <<>>
    /\ second_new = <<>>
    /\ recon_pc = "start"
    /\ ExtractAtRest /\ AuthAtRest /\ DelayAtRest /\ DriveAtRest /\ EnvAtRest /\ RunAtRest /\ AppAtRest /\ HistAtRest
    /\ CliAtRest /\ CallAtRest

ReconcileFirst ==
    /\ recon_pc = "start"
    /\ first_new' = FilterNewEpisodes(recon_episodes, archived_ids)
    /\ recon_pc' = "first"
    /\ UNCHANGED <<recon_episodes, archived_ids, second_new,
                   extractVars, envVars, runVars, appVars, histVars, cliVars, callVars,
                   driveVars, delayVars, authVars>>

ReconcileSecond ==
    /\ recon_pc = "first"
    /\ second_new' = FilterNewEpisodes(recon_episodes, archived_ids \cup IdsOf(first_new))
    /\ recon_pc' = "second"
    /\ UNCHANGED <<recon_episodes, archived_ids, first_new,
                   extractVars, envVars, runVars, appVars, histVars, cliVars, callVars,
                   driveVars, delayVars, authVars>>

NextReconcile == ReconcileFirst \/ ReconcileSecond

SpecReconcile == InitReconcile /\ [][NextReconcile]_vars

\* the positions of E whose reference is to be kept: identifier null or not in S
KeptPositions ==
    {i \in 1..Len(recon_episodes) :
        \/ extract_shiur_id(recon_episodes[i][2]) = None
        \/ extract_shiur_id(recon_episodes[i][2]) \notin archived_ids}

\* C6: the new episodes are, in input order, exactly the references of E whose
\* URL-derived identifier is null or not in S, each with that identifier.
C6_ReconciliationExact ==
    recon_pc # "start" =>
        /\ Len(first_new) = Cardinality(KeptPositions)
        /\ \A i \in KeptPositions :
              LET k == Cardinality({j \in KeptPositions : j <= i})
              IN  first_new[k] = <<recon_episodes[i][1], recon_episodes[i][2],
                                   extract_shiur_id(recon_episodes[i][2])>>

\* a run that kept one reference without identifier and dropped an archived one
C6_Witness ==
    /\ recon_pc = "first" /\ Len(recon_episodes) = 2 /\ Len(first_new) = 1
    /\ first_new[1][3] = None

\* C7 as stated: the second run's new set is empty.
C7_SecondRunEmpty == recon_pc = "second" => second_new = <<>>

\* C7 amended: the second run's new set holds exactly the references of E
\* whose identifier is null, in input order; it is empty when every
\* reference has an identifier.
C7_SecondRunOnlyUnidentified ==
    recon_pc = "second" =>
        /\ \A k \in 1..Len(second_new) : second_new[k][3] = None
        /\ second_new = SelectSeq(
              [i \in 1..Len(recon_episodes) |->
                  <<recon_episodes[i][1], recon_episodes[i][2],
                    extract_shiur_id(recon_episodes[i][2])>>],
              LAMBDA e : e[3] = None)

\* a second run after a first one that found an identified and an unidentified reference
C7_Witness ==
    /\ recon_pc = "second" /\ Len(first_new) = 2 /\ Len(second_new) = 1
    /\ IdsOf(first_new) # {}

(***************************************************************************)
(* SpecApp: the web app (app.py) with one feed selected: the "Check" and   *)
(* "Download selected feeds" buttons, in local and in Drive mode, against  *)
(* the site model.  The download loop takes one step per episode, and the  *)
(* script can be stopped between two episodes.                             *)
(***************************************************************************)
\* download runs and feed checks of a behaviour
MaxRuns == 2

\* the id Drive gives the target folder
FolderId == "folder-1"

\* check_feed (app.py 198-226) with drive_base_folder set; folder_ok and
\* listing_ok say whether find_or_create_folder and the files().list request succeed
check_feed(root, drive_mode, file, folder, folder_ok, listing_ok) ==
    LET eps == extract_episode_links(root)
        target_folder_id == IF drive_mode /\ folder_ok THEN FolderId ELSE None
        uploaded_shiur_ids ==
            IF drive_mode
            THEN IF Truthy(target_folder_id)
                 THEN get_uploaded_shiur_ids(list_files_in_folder(folder, listing_ok))
                 ELSE {}
            ELSE load_downloaded_shiurim(file)
    IN  [checked |-> TRUE,
         total_episodes |-> Len(eps),
         new_episodes |-> FilterNewEpisodes(eps, uploaded_shiur_ids),
         uploaded_shiur_ids |-> uploaded_shiur_ids,
         target_folder_id |-> target_folder_id]

\* actual_shiur_id = str(data.get('shiurID')) if data.get('shiurID') else shiur_id
ActualShiurId(data, shiur_id) ==
    IF JTruthy(data.shiurID) THEN PyStr(data.shiurID) ELSE shiur_id

\* one entry of the history of stored episodes
LogEntry(link, shiur_id, actual_shiur_id) ==
    [page_url |-> link, shiur_id |-> shiur_id, actual_shiur_id |-> actual_shiur_id,
     run |-> run_no,
     listed |-> actual_shiur_id \in batch_results.uploaded_shiur_ids]

InitApp ==
    /\ rss_root \in SiteFeeds
    /\ is_drive_mode \in BOOLEAN
    /\ db_file = NoFile
    /\ local_files = {}
    /\ drive_folder = <<>>
    /\ batch_results = NoBatchResults
    /\ RunAtRest /\ HistAtRest /\ ExtractAtRest /\ ReconAtRest /\ AuthAtRest /\ DelayAtRest /\ DriveAtRest /\ CliAtRest /\ CallAtRest

\* the "Check" button (app.py 500-518)
AppCheckFeeds ==
    /\ pc = "idle"
    /\ checks <= run_no
    /\ checks < MaxRuns
    /\ \E folder_ok, listing_ok \in BOOLEAN :
          batch_results' = check_feed(rss_root, is_drive_mode, db_file, drive_folder,
                                      folder_ok, listing_ok)
    /\ checks' = checks + 1
    /\ UNCHANGED <<envVars, runVars, is_drive_mode, archive_log, run_no, run_done_ids,
                   extractVars, reconVars, cliVars, callVars, driveVars, delayVars,
                   authVars>>

\* the "Download selected feeds" button up to the episode loop (app.py 522-536)
AppDownloadStart ==
    /\ pc = "idle"
    /\ batch_results.checked
    /\ run_no < MaxRuns
    /\ downloaded_shiurim' = load_downloaded_shiurim(db_file)
    /\ episodes' = batch_results.new_episodes
    /\ idx' = 0
    /\ successful' = 0
    /\ failed' = 0
    /\ pc' = "loop"
    /\ run_no' = run_no + 1
    /\ run_done_ids' = {}
    /\ slept' = FALSE
    /\ UNCHANGED <<envVars, appVars, archive_log, checks, extractVars, reconVars, cliVars, callVars,
                   driveVars, authVars>>

\* the iteration that finds no download URL (app.py 538-542)
AppEpisodeNoAudio(data) ==
    /\ failed' = failed + 1
    /\ slept' = FALSE
    /\ UNCHANGED <<successful, downloaded_shiurim, envVars, archive_log, run_done_ids>>

\* the Drive branch of an iteration (app.py 546-554); returns_dict is the side
\* of download_and_upload_to_drive's two bodies whose upload failure is a dict
AppEpisodeDrive(title, link, shiur_id, data, media_ok, upload_ok, returns_dict) ==
    \E actual_shiur_id \in {ActualShiurId(data, shiur_id)} :
    \E file_info \in {download_and_upload_to_drive(title, drive_folder, actual_shiur_id,
                                                   media_ok, upload_ok)} :
    \E truthy \in {file_info.ok \/ file_info.error_stage = "download" \/ returns_dict} :
        IF ~Truthy(batch_results.target_folder_id)
        THEN /\ failed' = failed + 1
             /\ slept' = FALSE
             /\ UNCHANGED <<successful, downloaded_shiurim, envVars, archive_log, run_done_ids>>
        ELSE /\ successful' = IF truthy THEN successful + 1 ELSE successful
             /\ slept' = (idx < Len(episodes) - 1)
             /\ failed' = IF truthy THEN failed ELSE failed + 1
             /\ drive_folder' = file_info.folder
             /\ downloaded_shiurim' =
                   IF Truthy(actual_shiur_id)
                   THEN downloaded_shiurim \cup {actual_shiur_id} ELSE downloaded_shiurim
             /\ archive_log' =
                   IF file_info.ok
                   THEN Append(archive_log, LogEntry(link, shiur_id, actual_shiur_id))
                   ELSE archive_log
             /\ run_done_ids' =
                   IF file_info.ok /\ Truthy(actual_shiur_id)
                   THEN run_done_ids \cup {actual_shiur_id} ELSE run_done_ids
             /\ UNCHANGED <<rss_root, db_file, local_files>>

\* the local branch of an iteration (app.py 555-562)
AppEpisodeLocal(title, link, shiur_id, data, media_ok) ==
    \E actual_shiur_id \in {ActualShiurId(data, shiur_id)} :
    \E done \in {download_mp3(data.downloadURL.v, title, local_files, media_ok)} :
        /\ successful' = IF done.ok THEN successful + 1 ELSE successful
        /\ failed' = IF done.ok THEN failed ELSE failed + 1
        /\ slept' = (idx < Len(episodes) - 1)
        /\ local_files' = done.files
        /\ downloaded_shiurim' =
              IF Truthy(actual_shiur_id)
              THEN downloaded_shiurim \cup {actual_shiur_id} ELSE downloaded_shiurim
        /\ archive_log' =
              IF done.wrote
              THEN Append(archive_log, LogEntry(link, shiur_id, actual_shiur_id))
              ELSE archive_log
        /\ run_done_ids' =
              IF done.ok /\ Truthy(actual_shiur_id)
              THEN run_done_ids \cup {actual_shiur_id} ELSE run_done_ids
        /\ UNCHANGED <<rss_root, db_file, drive_folder>>

\* one iteration of the episode loop (app.py 538-565)
AppDownloadEpisode ==
    /\ pc = "loop"
    /\ idx < Len(episodes)
    /\ \E title \in {episodes[idx + 1][1]}, link \in {episodes[idx + 1][2]},
          shiur_id \in {episodes[idx + 1][3]} :
       \E resp \in SiteResponses(link) :
       \E data \in {get_mp3_url_from_page(link, resp)} :
          IF ~JTruthy(data.downloadURL)
          THEN AppEpisodeNoAudio(data)
          ELSE IF is_drive_mode
          THEN \E media_ok, upload_ok, returns_dict \in BOOLEAN :
                  AppEpisodeDrive(title, link, shiur_id, data, media_ok, upload_ok,
                                  returns_dict)
          ELSE \E media_ok \in BOOLEAN :
                  AppEpisodeLocal(title, link, shiur_id, data, media_ok)
    /\ idx' = idx + 1
    /\ UNCHANGED <<pc, episodes, appVars, run_no, checks, extractVars, reconVars, cliVars, callVars,
                   driveVars, authVars>>

\* the end of the handler: the one save (app.py 567-576)
AppDownloadFinish ==
    /\ pc = "loop"
    /\ idx = Len(episodes)
    /\ db_file' = save_downloaded_shiurim(downloaded_shiurim, Now)
    /\ pc' = "idle"
    /\ downloaded_shiurim' = {}
    /\ episodes' = <<>>
    /\ idx' = 0
    /\ successful' = 0
    /\ failed' = 0
    /\ slept' = FALSE
    /\ UNCHANGED <<rss_root, local_files, drive_folder, appVars, histVars, extractVars,
                   reconVars, cliVars, callVars, driveVars, authVars>>

\* the script is stopped between two episodes: the handler's locals are gone,
\* the session state and the stores stay
AppInterrupt ==
    /\ pc = "loop"
    /\ 0 < idx /\ idx < Len(episodes)
    /\ pc' = "idle"
    /\ downloaded_shiurim' = {}
    /\ episodes' = <<>>
    /\ idx' = 0
    /\ successful' = 0
    /\ failed' = 0
    /\ slept' = FALSE
    /\ UNCHANGED <<envVars, appVars, histVars, extractVars, reconVars, cliVars, callVars,
                   driveVars, authVars>>

NextApp ==
    \/ AppCheckFeeds
    \/ AppDownloadStart
    \/ AppDownloadEpisode
    \/ AppDownloadFinish
    \/ AppInterrupt

SpecApp == InitApp /\ [][NextApp]_vars

(***************************************************************************)
(* Properties of the runs                                                  *)
(***************************************************************************)
\* C8: no two stored episodes carry the same non-null URL-derived identifier,
\* within a run or across runs.
C8_ArchivedAtMostOnce ==
    \A i, j \in 1..Len(archive_log) :
        (i < j /\ archive_log[i].shiur_id # None)
            => archive_log[i].shiur_id # archive_log[j].shiur_id

\* C9: an episode stored in an earlier run, whose identifier the feed check
\* before a later run found tracked (in the Tracking Record file, or among the
\* shiurID tags listed from the target folder), is not stored again in that run.
C9_NoRearchiveOnRetry ==
    \A i, j \in 1..Len(archive_log) :
        (/\ archive_log[i].run < archive_log[j].run
         /\ archive_log[i].page_url = archive_log[j].page_url
         /\ archive_log[i].actual_shiur_id = archive_log[j].actual_shiur_id)
            => ~archive_log[j].listed

\* C10: in local mode, whenever the loop stands between two episodes or was
\* stopped there, every identifier whose episode was archived in the run is
\* in the saved Tracking Record file.
C10_SavedAfterEachEpisode ==
    (~is_drive_mode /\ (pc = "idle" \/ idx < Len(episodes)))
        => run_done_ids \subseteq load_downloaded_shiurim(db_file)

(***************************************************************************)
(* SpecCli: the command-line program (download_podcasts.py main, 527-670)  *)
(* run up to MaxRuns times against the site model.  A process starts,      *)
(* walks its new episodes one per step, and ends at its summary, at one of *)
(* its sys.exit calls, or on an exception nothing catches.  Between two    *)
(* processes the Tracking Record file can be cleared from the web app.     *)
(***************************************************************************)
\* the largest --limit given
MaxLimit == 1

\* a fetch_rss_feed that answers a failed request with the document anyway
FetchRssFeedGoesOn(feed, fetch_ok) == [exits |-> FALSE, root |-> feed]

\* fetch_rss_feed(rss_url) (108-130): the parsed document, or sys.exit(1) when
\* the request, raise_for_status or the XML parser raises
fetch_rss_feed(feed, fetch_ok) ==
    IF fetch_ok THEN [exits |-> FALSE, root |-> feed] ELSE [exits |-> TRUE, root |-> <<>>]

\* seq[:n]: n beyond the length takes everything, a negative n counts from the end
Prefix(seq, n) ==
    LET stop == IF n >= 0 THEN n ELSE Len(seq) + n
    IN  SubSeq(seq, 1, IF stop > Len(seq) THEN Len(seq) ELSE IF stop < 0 THEN 0 ELSE stop)

\* what the site serves to the command-line program: the pages of the site
\* model, and player data whose download URL is malformed
CliPages(link) ==
    SitePages(link)
    \cup {<<LpdElem(JDict(<<KV("shiurTitle", JStr("T")),
                             KV("downloadURL", JStr("https://[cdn/x.mp3"))>>))>>}

CliResponses(link) ==
    {[ok |-> TRUE, error |-> "", html_content |-> h] : h \in CliPages(link)}
    \cup {[ok |-> FALSE, error |-> "timeout", html_content |-> <<>>]}

\* the Tracking Record file before the first process: none, or the one an
\* earlier use left, holding a lecture the feed no longer lists
CliFiles ==
    {NoFile,
     JsonFile(JDict(<<KV("downloaded_shiurim", JList(<<KV("", JStr("1160032"))>>)),
                      KV("last_updated", JStr("2025-12-31 23:59:59"))>>))}

InitCli ==
    /\ rss_root \in SiteFeeds
    /\ limit \in -1..MaxLimit
    /\ db_file \in CliFiles
    /\ local_files = {}
    /\ drive_folder = <<>>
    /\ outcome = "none" /\ feed_fetch = "ok" /\ page_fetches = 0 /\ processed = <<>>
    /\ RunAtRest /\ HistAtRest /\ AppAtRest /\ ExtractAtRest /\ ReconAtRest /\ AuthAtRest /\ DelayAtRest /\ DriveAtRest /\ CallAtRest

\* main up to the loop (571-629): load the Tracking Record, fetch the feed,
\* reconcile, apply the limit
CliStart ==
    /\ pc = "idle"
    /\ run_no < MaxRuns
    /\ \E fetch_ok \in BOOLEAN :
       \E loaded \in {load_downloaded_shiurim(db_file)} :
       \E fetched \in {fetch_rss_feed(rss_root, fetch_ok)} :
       \E found \in {extract_episode_links(fetched.root)} :
       \E new_episodes \in {FilterNewEpisodes(found, loaded)} :
          /\ feed_fetch' = IF fetch_ok THEN "ok" ELSE "failed"
          /\ downloaded_shiurim' = loaded
          /\ IF fetched.exits \/ found = <<>>
             THEN /\ outcome' = "exit_1" /\ pc' = "idle" /\ episodes' = <<>>
             ELSE IF new_episodes = <<>>
             THEN /\ outcome' = "exit_0" /\ pc' = "idle" /\ episodes' = <<>>
             ELSE /\ outcome' = "running" /\ pc' = "loop"
                  /\ episodes' = IF limit # 0 THEN Prefix(new_episodes, limit)
                                 ELSE new_episodes
    /\ idx' = 0
    /\ successful' = 0
    /\ failed' = 0
    /\ page_fetches' = 0
    /\ processed' = <<>>
    /\ run_no' = run_no + 1
    /\ run_done_ids' = {}
    /\ slept' = FALSE
    /\ UNCHANGED <<envVars, limit, archive_log, checks, appVars, extractVars, reconVars,
                   callVars, driveVars, authVars>>

\* the iteration whose page gives no download URL (640-642)
CliEpisodeNoAudio ==
    /\ failed' = failed + 1
    /\ idx' = idx + 1
    /\ processed' = Append(processed, idx + 1)
    /\ UNCHANGED <<pc, outcome, successful, downloaded_shiurim, envVars, archive_log,
                   run_done_ids>>

\* the iteration that calls download_mp3 (644-657); an exception out of
\* download_mp3 is caught nowhere and ends the process
CliEpisodeDownload(title, link, shiur_id, data, media_ok) ==
    \E done \in {download_mp3(data.downloadURL.v, title, local_files, media_ok)} :
        IF done.raised
        THEN /\ pc' = "idle"
             /\ outcome' = "crashed"
             /\ UNCHANGED <<idx, processed, successful, failed, downloaded_shiurim, envVars,
                            archive_log, run_done_ids>>
        ELSE /\ successful' = IF done.ok THEN successful + 1 ELSE successful
             /\ failed' = IF done.ok THEN failed ELSE failed + 1
             /\ local_files' = done.files
             /\ downloaded_shiurim' =
                   IF done.ok /\ Truthy(shiur_id)
                   THEN downloaded_shiurim \cup {shiur_id} ELSE downloaded_shiurim
             /\ db_file' =
                   IF done.ok /\ Truthy(shiur_id)
                   THEN save_downloaded_shiurim(downloaded_shiurim \cup {shiur_id}, Now)
                   ELSE db_file
             /\ archive_log' =
                   IF done.wrote THEN Append(archive_log, LogEntry(link, shiur_id, shiur_id))
                   ELSE archive_log
             /\ run_done_ids' =
                   IF done.ok /\ Truthy(shiur_id)
                   THEN run_done_ids \cup {shiur_id} ELSE run_done_ids
             /\ idx' = idx + 1
             /\ processed' = Append(processed, idx + 1)
             /\ UNCHANGED <<pc, outcome, rss_root, drive_folder>>

\* one iteration of the episode loop (631-663)
CliEpisode ==
    /\ pc = "loop"
    /\ idx < Len(episodes)
    /\ \E title \in {episodes[idx + 1][1]}, link \in {episodes[idx + 1][2]},
          shiur_id \in {episodes[idx + 1][3]} :
       \E resp \in CliResponses(link) :
       \E data \in {get_mp3_url_from_page(link, resp)} :
          IF ~JTruthy(data.downloadURL)
          THEN CliEpisodeNoAudio
          ELSE \E media_ok \in BOOLEAN :
                  CliEpisodeDownload(title, link, shiur_id, data, media_ok)
    /\ page_fetches' = page_fetches + 1
    /\ slept' = (pc' = "loop" /\ idx + 1 < Len(episodes))
    /\ UNCHANGED <<episodes, limit, feed_fetch, run_no, checks, appVars, extractVars,
                   reconVars, callVars, driveVars, authVars>>

\* the summary (665-670); the process ends
CliSummary ==
    /\ pc = "loop"
    /\ idx = Len(episodes)
    /\ pc' = "idle"
    /\ outcome' = "done"
    /\ slept' = FALSE
    /\ UNCHANGED <<envVars, downloaded_shiurim, episodes, idx, successful, failed, appVars,
                   histVars, limit, feed_fetch, page_fetches, processed, extractVars,
                   reconVars, callVars, driveVars, authVars>>

\* the web app's "Clear local database" button with its confirmation
\* (app.py 1348-1354), used on the same file while no process runs; the page
\* offers it when the database is not empty
AppClearDatabase ==
    /\ pc = "idle"
    /\ load_downloaded_shiurim(db_file) # {}
    /\ db_file' = save_downloaded_shiurim({}, Now)
    /\ UNCHANGED <<rss_root, local_files, drive_folder, runVars, histVars, appVars, cliVars,
                   extractVars, reconVars, callVars, driveVars, delayVars, authVars>>

NextCli ==
    \/ CliStart
    \/ CliEpisode
    \/ CliSummary
    \/ AppClearDatabase

SpecCli == InitCli /\ [][NextCli]_vars

(***************************************************************************)
(* Properties of the command-line runs                                     *)
(***************************************************************************)
\* C11: a failed episode is counted and the loop goes on: while the loop runs,
\* the episodes before idx were each processed once, each counted as a success
\* or a failure; a process that entered the loop ends only at its summary,
\* with every selected episode processed exactly once.
C11_PartialFailureNotFatal ==
    /\ outcome \in {"running", "done"} =>
          /\ processed = [i \in 1..idx |-> i]
          /\ successful + failed = idx
    /\ outcome = "done" => idx = Len(episodes)
    /\ outcome # "crashed"

\* C12: a process whose RSS request fails ends at once with exit status 1: it
\* requests no detail page, and the step that ends it leaves the output
\* directory, the history of stored episodes and the Tracking Record file as
\* they were.
C12_FeedFetchFailureAborts ==
    /\ [](feed_fetch = "failed" =>
            pc = "idle" /\ outcome = "exit_1" /\ page_fetches = 0 /\ processed = <<>>)
    /\ [][(run_no' # run_no /\ feed_fetch' = "failed")
            => UNCHANGED <<db_file, local_files, archive_log>>]_vars

\* a second process fails to fetch the feed after the first one stored an
\* episode and saved the Tracking Record
C12_Witness ==
    /\ feed_fetch = "failed"
    /\ run_no = 2
    /\ archive_log # <<>>
    /\ load_downloaded_shiurim(db_file) # {}

TrackIds == {"1160274", "12", "", " x", "a\"b", "c\\d"}

\* the largest identifier set saved
MaxIds == 2

IdSets == {ids \in SUBSET TrackIds : Cardinality(ids) <= MaxIds}

\* the tracking files found on disk: none, text that is not JSON, JSON that is
\* not a dict, a dict without the key, the key with a value that is not a
\* list, lists with members that are not str, and a file save wrote
TrackFiles ==
    {NoFile, CorruptFile,
     JsonFile(JList(<<KV("", JInt("1")), KV("", JInt("2"))>>)),
     JsonFile(JStr("s")),
     JsonFile(JNull),
     JsonFile(JDict(<<KV("a", JInt("1"))>>)),
     JsonFile(JDict(<<KV("downloaded_shiurim", JNull)>>)),
     JsonFile(JDict(<<KV("downloaded_shiurim", JInt("5"))>>)),
     JsonFile(JDict(<<KV("downloaded_shiurim", JStr("12"))>>)),
     JsonFile(JDict(<<KV("downloaded_shiurim", JDict(<<KV("x", JInt("1"))>>))>>)),
     JsonFile(JDict(<<KV("downloaded_shiurim", JList(<<KV("", JList(<<KV("", JStr("a"))>>))>>))>>)),
     JsonFile(JDict(<<KV("downloaded_shiurim", JList(<<KV("", JInt("12")), KV("", JStr("13"))>>))>>)),
     save_downloaded_shiurim({"12", "1160274"}, Now)}

\* local times at which a save happens
Clocks ==
    {Now, [year |-> 2025, mon |-> 12, mday |-> 31, hour |-> 23, min |-> 59, sec |-> 59]}

InitTracking ==
    /\ db_file \in TrackFiles
    /\ call_arg \in IdSets
    /\ call_result = {}
    /\ call_pc = "start"
    /\ rss_root = <<>> /\ local_files = {} /\ drive_folder = <<>>
    /\ RunAtRest /\ HistAtRest /\ AppAtRest /\ ExtractAtRest /\ ReconAtRest /\ AuthAtRest /\ DelayAtRest /\ DriveAtRest /\ CliAtRest

\* load_downloaded_shiurim(db_file) on the file as found
TrackLoad ==
    /\ call_pc = "start"
    /\ call_result' = load_downloaded_shiurim(db_file)
    /\ call_pc' = "loaded"
    /\ UNCHANGED <<call_arg, envVars, runVars, histVars, appVars, extractVars, reconVars,
                   cliVars, driveVars, delayVars, authVars>>

\* save_downloaded_shiurim(db_file, call_arg)
TrackSave ==
    /\ call_pc \in {"start", "loaded"}
    /\ \E now \in Clocks : db_file' = save_downloaded_shiurim(call_arg, now)
    /\ call_pc' = "saved"
    /\ UNCHANGED <<call_arg, call_result, rss_root, local_files, drive_folder, runVars,
                   histVars, appVars, extractVars, reconVars, cliVars, driveVars,
                   delayVars, authVars>>

\* load_downloaded_shiurim(db_file) after the save
TrackReload ==
    /\ call_pc = "saved"
    /\ call_result' = load_downloaded_shiurim(db_file)
    /\ call_pc' = "reloaded"
    /\ UNCHANGED <<call_arg, envVars, runVars, histVars, appVars, extractVars, reconVars,
                   cliVars, driveVars, delayVars, authVars>>

NextTracking ==
    \/ TrackLoad
    \/ TrackSave
    \/ TrackReload

SpecTracking == InitTracking /\ [][NextTracking]_vars

(***************************************************************************)
(* Properties of the Tracking Record file                                  *)
(***************************************************************************)
\* YYYY-MM-DD HH:MM:SS
IsTimestamp(n) ==
    /\ n.t = "str"
    /\ Len(n.v) = 19
    /\ \A i \in 1..19 :
          CASE i \in {5, 8} -> CharAt(n.v, i) = "-"
            [] i = 11 -> CharAt(n.v, i) = " "
            [] i \in {14, 17} -> CharAt(n.v, i) = ":"
            [] OTHER -> CharAt(n.v, i) \in Digits

Malformed(file) ==
    \/ ~file.exists
    \/ ~file.parses
    \/ file.data.t # "dict"
    \/ DictGet(file.data, "downloaded_shiurim").t # "list"

\* C14: load_downloaded_shiurim on a missing or malformed file returns the
\* empty set.
C14_MalformedLoadsEmpty ==
    (call_pc = "loaded" /\ Malformed(db_file)) => call_result = {}

(***************************************************************************)
(* SpecIdentifier: extract_shiur_id on its own, called twice on one URL    *)
(***************************************************************************)
IdHosts == {"https://site", "http://[site"}

IdPaths ==
    {"/lectures/1160274/", "/lectures/lecture.cfm/1160032", "/lectures/details/77",
     "/lectures/details", "/lectures/x12", "/shiurID:55/", "/about"}

IdQueries ==
    {"", "?shiurID=1159876", "?shiurID=", "?shiurID", "?shiurID=abc", "?shiurID=ab+c",
     "?a=1&shiurID=5&shiurID=6", "?shiurid=9", "?xshiurID=42"}

IdFragments == {"", "#shiurID=3"}

\* the detail URLs given to extract_shiur_id
IdUrls == {h \o p \o q \o f : h \in IdHosts, p \in IdPaths, q \in IdQueries, f \in IdFragments}

InitIdentifier ==
    /\ call_arg \in IdUrls
    /\ call_result = <<>>
    /\ call_pc = "start"
    /\ EnvAtRest /\ RunAtRest /\ HistAtRest /\ AppAtRest /\ ExtractAtRest /\ ReconAtRest /\ AuthAtRest /\ DelayAtRest /\ DriveAtRest
    /\ CliAtRest

\* shiur_id = extract_shiur_id(page_url)
IdentifierCall ==
    /\ call_pc = "start"
    /\ call_result' = Append(call_result, extract_shiur_id(call_arg))
    /\ call_pc' = "called"
    /\ UNCHANGED <<call_arg, envVars, runVars, histVars, appVars, extractVars, reconVars,
                   cliVars, driveVars, delayVars, authVars>>

\* the same call once more
IdentifierCallAgain ==
    /\ call_pc = "called"
    /\ call_result' = Append(call_result, extract_shiur_id(call_arg))
    /\ call_pc' = "again"
    /\ UNCHANGED <<call_arg, envVars, runVars, histVars, appVars, extractVars, reconVars,
                   cliVars, driveVars, delayVars, authVars>>

NextIdentifier == IdentifierCall \/ IdentifierCallAgain

SpecIdentifier == InitIdentifier /\ [][NextIdentifier]_vars

(***************************************************************************)
(* Properties of extract_shiur_id                                          *)
(***************************************************************************)
\* the fields of the URL's query string that are written name=value with the
\* name shiurID, each by the position where it starts and its value
ShiurIDFields(url) ==
    LET query == UrlQuery(url)
        starts == {1} \cup {i + 1 : i \in {j \in 1..Len(query) : CharAt(query, j) = "&"}}
        fieldEnd(a) == IF \E i \in a..Len(query) : CharAt(query, i) = "&"
                       THEN (CHOOSE i \in a..Len(query) :
                                /\ CharAt(query, i) = "&"
                                /\ \A j \in a..(i - 1) : CharAt(query, j) # "&") - 1
                       ELSE Len(query)
    IN  {[at |-> a, value |-> SubSeq(query, a + 8, fieldEnd(a))] :
            a \in {b \in starts : StartsWithAt(query, b, "shiurID=")}}

\* the value of the first of the given fields, with '+' read as a space
FirstValue(fields) ==
    UnquotePlus((CHOOSE f \in fields : \A g \in fields : f.at <= g.at).value)

\* what the three patterns give when tried in order, the first on `fields`
InOrder(fields, url) ==
    IF fields # {} THEN FirstValue(fields)
    ELSE IF PathShiurID(url) # None THEN PathShiurID(url)
    ELSE LegacyShiurID(url)

C17_IdentifierIsDigits ==
    call_pc # "start" =>
        \A k \in 1..Len(call_result) :
            \/ call_result[k] = None
            \/ /\ Len(call_result[k]) > 0
               /\ \A i \in 1..Len(call_result[k]) : CharAt(call_result[k], i) \in Digits

(***************************************************************************)
(* SpecSanitize: sanitize_filename on its own, on short titles over every  *)
(* character it treats and on titles longer than its length limit          *)
(***************************************************************************)
\* the characters of the titles: a letter, the characters the function
\* strips at the ends, and the ones it replaces or removes
TitleChars == {"a", ".", " ", "-", "<", ">", ":", "\"", "/", "\\", "|", "?", "*"}

\* the longest short title, and the longest tail of a long one
MaxTitleLen == 2

\* the strings of n characters of an alphabet
RECURSIVE StringsOf(_, _)
StringsOf(alphabet, n) ==
    IF n = 0 THEN {""}
    ELSE {c \o s : c \in alphabet, s \in StringsOf(alphabet, n - 1)}

\* a str of n times c
RECURSIVE Repeat(_, _)
Repeat(c, n) ==
    IF n = 0 THEN ""
    ELSE IF n = 1 THEN c
    ELSE Repeat(c, n \div 2) \o Repeat(c, n - n \div 2)

ShortTitles == UNION {StringsOf(TitleChars, n) : n \in 0..MaxTitleLen}

\* titles that pass the limit by a tail of letters, periods, spaces and
\* dashes, with and without a period near their start
LongTitles ==
    {head \o Repeat("a", MaxFilenameLen - 1) \o tail :
        head \in {"", "a."},
        tail \in UNION {StringsOf({"a", ".", " ", "-"}, n) : n \in 2..(MaxTitleLen + 1)}}

InitSanitize ==
    /\ call_arg \in ShortTitles \cup LongTitles
    /\ call_result = ""
    /\ call_pc = "start"
    /\ EnvAtRest /\ RunAtRest /\ HistAtRest /\ AppAtRest /\ ExtractAtRest /\ ReconAtRest /\ AuthAtRest /\ DelayAtRest /\ DriveAtRest
    /\ CliAtRest

\* sanitize_filename(title)
SanitizeCall ==
    /\ call_pc = "start"
    /\ call_result' = sanitize_filename(call_arg)
    /\ call_pc' = "called"
    /\ UNCHANGED <<call_arg, envVars, runVars, histVars, appVars, extractVars, reconVars,
                   cliVars, driveVars, delayVars, authVars>>

NextSanitize == SanitizeCall

SpecSanitize == InitSanitize /\ [][NextSanitize]_vars

(***************************************************************************)
(* Properties of sanitize_filename                                         *)
(***************************************************************************)
\* C18: the result holds none of the characters < > : " / \ | ? *.
C18_NoInvalidCharacters ==
    call_pc = "called" =>
        \A i \in 1..Len(call_result) :
            CharAt(call_result, i) \notin {"<", ">", ":", "\"", "/", "\\", "|", "?", "*"}

\* a title made of a quotation mark and a slash came back as the apostrophe
\* that replaces the quotation mark
C18_Witness ==
    /\ call_pc = "called"
    /\ call_arg = "\"/"
    /\ call_result = "'"

\* C19: the result is at most 180 characters long.
C19_AtMostMaxLength ==
    call_pc = "called" => Len(call_result) <= MaxFilenameLen

\* C20: the result neither starts nor ends with a space, a period or a dash,
\* also when the title was longer than the limit and was cut.
C20_NoLeadingTrailingPunctuation ==
    (call_pc = "called" /\ call_result # "") =>
        /\ CharAt(call_result, 1) \notin {" ", ".", "-"}
        /\ CharAt(call_result, Len(call_result)) \notin {" ", ".", "-"}

(***************************************************************************)
(* SpecDownload: download_mp3 on its own, into a directory that may hold   *)
(* the destination file already                                            *)
(***************************************************************************)
\* download URLs: with a file name, without one, with a query string, one
\* that urlparse rejects, and the empty str
DlUrls ==
    {"https://cdn/1160274.mp3", "https://cdn/stream/1160274", "https://cdn/x.mp3?token=1",
     "https://cdn/a:b.mp3", "https://[cdn/x.mp3", ""}

DlTitles == {"Shiur A", "T", "a/b", ""}

\* the names the output directory can hold before the call
DlNames == {"1160274.mp3", "x.mp3", "a-b.mp3", "Shiur A.mp3", "untitled.mp3"}

InitDownload ==
    /\ call_arg \in [mp3_url : DlUrls, title : DlTitles, files : SUBSET DlNames,
                     media_ok : BOOLEAN]
    /\ call_result = [ok |-> FALSE, files |-> {}, wrote |-> FALSE, raised |-> FALSE,
                      requested |-> FALSE]
    /\ call_pc = "start"
    /\ EnvAtRest /\ RunAtRest /\ HistAtRest /\ AppAtRest /\ ExtractAtRest /\ ReconAtRest /\ AuthAtRest /\ DelayAtRest /\ DriveAtRest
    /\ CliAtRest

\* download_mp3(mp3_url, title, output_dir)
DownloadCall ==
    /\ call_pc = "start"
    /\ call_result' = download_mp3(call_arg.mp3_url, call_arg.title, call_arg.files,
                                   call_arg.media_ok)
    /\ call_pc' = "called"
    /\ UNCHANGED <<call_arg, envVars, runVars, histVars, appVars, extractVars, reconVars,
                   cliVars, driveVars, delayVars, authVars>>

NextDownload == DownloadCall

SpecDownload == InitDownload /\ [][NextDownload]_vars

\* C21: when the destination file exists already, download_mp3 returns
\* success, makes no media request, writes nothing and leaves the directory
\* as it was.
C21_ExistingFileIsSuccess ==
    (/\ call_pc = "called"
     /\ ~UrlparseRaises(call_arg.mp3_url)
     /\ Mp3Filename(call_arg.mp3_url, call_arg.title) \in call_arg.files)
        => /\ call_result.ok
           /\ ~call_result.requested
           /\ ~call_result.wrote
           /\ ~call_result.raised
           /\ call_result.files = call_arg.files

\* the file named by the URL was there, and the media request would have failed
C21_Witness ==
    /\ call_pc = "called"
    /\ call_arg.mp3_url = "https://cdn/1160274.mp3"
    /\ call_arg.files = {"1160274.mp3", "x.mp3"}
    /\ ~call_arg.media_ok
    /\ call_result.ok

(***************************************************************************)
(* SpecFeed: extract_episode_links on its own, on RSS documents whose      *)
(* items may lack a title or link element or their text                    *)
(***************************************************************************)
\* an item element by its title and link children, None for an empty element
DocItem(title_elem, link_elem, title_text, link_text) ==
    [title_elem |-> title_elem, link_elem |-> link_elem, title_text |-> title_text,
     link_text |-> link_text]

\* the items of the documents: a plain item, a second lecture, an item with
\* no title element, one with an empty title, links that are blank, empty or
\* missing, and a link given with its CDATA markers and spaces
DocItems ==
    {DocItem(TRUE, TRUE, "Shiur A", "https://site/lectures/1160274/"),
     DocItem(TRUE, TRUE, "Shiur B", "https://site/lectures/lecture.cfm/1160032"),
     DocItem(FALSE, TRUE, None, "https://site/lectures/details/77"),
     DocItem(TRUE, TRUE, None, "https://site/about"),
     DocItem(TRUE, TRUE, "Shiur D", "  "),
     DocItem(TRUE, TRUE, "Shiur E", None),
     DocItem(TRUE, FALSE, "Shiur F", None),
     DocItem(TRUE, TRUE, " <![CDATA[Shiur G]]>", "<![CDATA[https://site/lectures/9]]> ")}

\* the documents: at most MaxFeedLen items, repeats allowed
Docs == UNION {[1..n -> DocItems] : n \in 0..MaxFeedLen}

InitFeed ==
    /\ call_arg \in Docs
    /\ call_result = <<>>
    /\ call_pc = "start"
    /\ EnvAtRest /\ RunAtRest /\ HistAtRest /\ AppAtRest /\ ExtractAtRest /\ ReconAtRest /\ AuthAtRest /\ DelayAtRest /\ DriveAtRest
    /\ CliAtRest

\* episodes = extract_episode_links(rss_root)
FeedCall ==
    /\ call_pc = "start"
    /\ call_result' = extract_episode_links(call_arg)
    /\ call_pc' = "called"
    /\ UNCHANGED <<call_arg, envVars, runVars, histVars, appVars, extractVars, reconVars,
                   cliVars, driveVars, delayVars, authVars>>

NextFeed == FeedCall

SpecFeed == InitFeed /\ [][NextFeed]_vars

\* the text of an element, without CDATA markers and surrounding whitespace
TextOf(present, text) ==
    IF ~present \/ text = None THEN "" ELSE Strip(StripCdata(text))

\* an item that has a non-empty link
HasLink(item) == TextOf(item.link_elem, item.link_text) # ""

\* C22: the result has one (title, link) pair for every item with a non-empty
\* link, in document order, repeats included, and nothing else.
C22_EveryLinkedItemInOrder ==
    call_pc = "called" =>
        LET linked == SelectSeq(call_arg, HasLink)
        IN  /\ Len(call_result) = Len(linked)
            /\ \A k \in 1..Len(linked) :
                  /\ call_result[k][2] = TextOf(linked[k].link_elem, linked[k].link_text)
                  /\ call_result[k][1] = TextOf(linked[k].title_elem, linked[k].title_text)

(***************************************************************************)
(* SpecTag: get_uploaded_shiur_ids on its own, on folders holding files    *)
(* the program uploaded, files whose tag was stored with whitespace around *)
(* it, and files without a tag.  Each file carries, next to its name and   *)
(* description, the identifier its tag stands for (None without a tag).    *)
(***************************************************************************)
\* the longest folder, in files
MaxFolderLen == 2

\* the file download_and_upload_to_drive stores for shiur_id
UploadedFile(shiur_id) ==
    LET f == download_and_upload_to_drive("T", <<>>, shiur_id, TRUE, TRUE).folder[1]
    IN  [name |-> f.name, description |-> f.description, id |-> shiur_id]

StoredFile(description, id) == [name |-> "T.mp3", description |-> description, id |-> id]

TagFiles ==
    {UploadedFile("1160274"), UploadedFile("7"), UploadedFile("ab c"),
     StoredFile("shiurID: 1160032 ", "1160032"),
     StoredFile(" shiurID:1159876", "1159876"),
     StoredFile(None, None), StoredFile("", None), StoredFile("lecture notes", None),
     StoredFile("about shiurID:55", None)}

TagFolders == UNION {[1..n -> TagFiles] : n \in 0..MaxFolderLen}

InitTag ==
    /\ call_arg \in TagFolders
    /\ call_result = {}
    /\ call_pc = "start"
    /\ EnvAtRest /\ RunAtRest /\ HistAtRest /\ AppAtRest /\ ExtractAtRest /\ ReconAtRest /\ AuthAtRest /\ DelayAtRest /\ DriveAtRest
    /\ CliAtRest

\* get_uploaded_shiur_ids(folder_id), the listing request succeeding
TagCall ==
    /\ call_pc = "start"
    /\ call_result' = get_uploaded_shiur_ids(list_files_in_folder(call_arg, TRUE))
    /\ call_pc' = "called"
    /\ UNCHANGED <<call_arg, envVars, runVars, histVars, appVars, extractVars, reconVars,
                   cliVars, driveVars, delayVars, authVars>>

NextTag == TagCall

SpecTag == InitTag /\ [][NextTag]_vars

\* C23: the set read from a folder is exactly the set of the identifiers its
\* files' tags stand for, whether a tag was written by the program or stored
\* with whitespace around it; files without a tag add nothing.
C23_RemoteTagRoundTrip ==
    call_pc = "called" =>
        call_result = {call_arg[i].id : i \in 1..Len(call_arg)} \ {None}

(***************************************************************************)
(* SpecFolders: resolve_drive_folder (app.py 180-186) over                 *)
(* find_or_create_folder and create_folder (google_drive_auth.py 246-316), *)
(* called again and again on one Drive account.  A folder is               *)
(* [id, name, parent], parent None for a folder created without parents.   *)
(* Each request to Drive succeeds or raises.                               *)
(***************************************************************************)
\* resolve_drive_folder calls of a behaviour
MaxCalls == 3

\* the id Drive gives the next folder created
NewFolderId(tree) == "folder-" \o ZeroPadded(Cardinality(tree) + 1, 1)

\* create_folder(folder_name, parent_folder_id): [id, tree]
create_folder(tree, folder_name, parent_folder_id, create_ok) ==
    IF create_ok
    THEN [id |-> NewFolderId(tree),
          tree |-> tree \cup {[id |-> NewFolderId(tree), name |-> folder_name,
                               parent |-> parent_folder_id]}]
    ELSE [id |-> None, tree |-> tree]

\* find_or_create_folder(folder_name, parent_folder_id): the set of the
\* [id, tree] it can give.  The query names the parent only when
\* parent_folder_id is set; of several matching folders Drive lists any first.
find_or_create_folder(tree, folder_name, parent_folder_id, list_ok, create_ok) ==
    LET files == {f \in tree : /\ f.name = folder_name
                               /\ Truthy(parent_folder_id) => f.parent = parent_folder_id}
    IN  IF ~list_ok THEN {[id |-> None, tree |-> tree]}
        ELSE IF files # {} THEN {[id |-> f.id, tree |-> tree] : f \in files}
        ELSE {create_folder(tree, folder_name, parent_folder_id, create_ok)}

\* resolve_drive_folder(base_folder, feed_name, use_subfolders): the set of
\* the [id, tree] it can give; ok is the outcome of its requests to Drive
resolve_drive_folder(tree, base_folder, feed_name, use_subfolders, ok) ==
    LET bases == IF Truthy(base_folder)
                 THEN find_or_create_folder(tree, base_folder, None, ok.base_list,
                                            ok.base_create)
                 ELSE {[id |-> None, tree |-> tree]}
    IN  IF use_subfolders
        THEN UNION {find_or_create_folder(b.tree, sanitize_filename(feed_name), b.id,
                                          ok.feed_list, ok.feed_create) : b \in bases}
        ELSE bases

RequestOutcomes == [base_list : BOOLEAN, base_create : BOOLEAN, feed_list : BOOLEAN,
                    feed_create : BOOLEAN]

\* the configured base folder, and the feeds of the configuration
BaseFolders == {"YUTorah"}
FeedNames == {"Rav A", "Rav B: Parsha"}

InitFolders ==
    /\ drive_tree = {}
    /\ resolved = <<>>
    /\ EnvAtRest /\ RunAtRest /\ HistAtRest /\ AppAtRest /\ ExtractAtRest /\ ReconAtRest /\ AuthAtRest /\ DelayAtRest
    /\ CliAtRest /\ CallAtRest

\* one call of resolve_drive_folder
ResolveDriveFolder ==
    /\ Len(resolved) < MaxCalls
    /\ \E base_folder \in BaseFolders, feed_name \in FeedNames, use_subfolders \in BOOLEAN,
          ok \in RequestOutcomes :
       \E r \in resolve_drive_folder(drive_tree, base_folder, feed_name, use_subfolders, ok) :
          /\ drive_tree' = r.tree
          /\ resolved' = Append(resolved, [base_folder |-> base_folder,
                                           feed_name |-> feed_name,
                                           use_subfolders |-> use_subfolders,
                                           id |-> r.id])
    /\ UNCHANGED <<envVars, runVars, histVars, appVars, extractVars, reconVars, cliVars,
                   callVars, delayVars, authVars>>

NextFolders == ResolveDriveFolder

SpecFolders == InitFolders /\ [][NextFolders]_vars

\* C24: the account never holds two folders of one name under one parent, and
\* any two calls with the same arguments that both returned a folder returned
\* the same folder.
C24_ResolutionIdempotent ==
    /\ \A f, g \in drive_tree : (f.name = g.name /\ f.parent = g.parent) => f = g
    /\ \A i, j \in 1..Len(resolved) :
          (/\ resolved[i].base_folder = resolved[j].base_folder
           /\ resolved[i].feed_name = resolved[j].feed_name
           /\ resolved[i].use_subfolders = resolved[j].use_subfolders
           /\ resolved[i].id # None /\ resolved[j].id # None)
              => resolved[i].id = resolved[j].id

(***************************************************************************)
(* Further properties of the download loops                                *)
(***************************************************************************)
\* C25: while a download loop stands between two of its episodes, the
\* iteration just finished ended with the delay, whatever its outcome: the
\* next detail page is never requested without a delay after the last one.
C25_DelayBetweenEpisodes ==
    (pc = "loop" /\ 0 < idx /\ idx < Len(episodes)) => slept

\* the first L elements of a list, none when L is not positive
FirstL(seq, L) ==
    SubSeq(seq, 1, IF L < 0 THEN 0 ELSE IF L > Len(seq) THEN Len(seq) ELSE L)

\* C26: a process given a limit L handles at most L episodes, and the list
\* its loop walks is the first L of the new episodes of the feed, in feed order.
C26_LimitIsFirstL ==
    /\ [](limit # 0 => Len(processed) <= Len(FirstL(episodes, limit)))
    /\ [][(run_no' # run_no /\ limit # 0 /\ pc' = "loop")
             => episodes' = FirstL(FilterNewEpisodes(extract_episode_links(rss_root),
                                                     load_downloaded_shiurim(db_file)),
                                   limit)]_vars

\* C27: a step of a download loop adds to the in-memory tracking set only
\* identifiers whose archive call has succeeded in the run, and a step that
\* writes the Tracking Record file adds to it only such identifiers.
C27_TrackedOnlyAfterArchive ==
    /\ [][(pc = "loop" /\ pc' = "loop")
             => (downloaded_shiurim' \ downloaded_shiurim) \subseteq run_done_ids']_vars
    /\ [][load_downloaded_shiurim(db_file')
             \subseteq (load_downloaded_shiurim(db_file) \cup run_done_ids')]_vars

(***************************************************************************)
(* Further properties of the extractor                                     *)
(***************************************************************************)
\* the strategies whose return value the driver takes for a success
Wins(name) == ExtractedTruthy(RunStrategy(name, FetchedPage))

C29_DriveSuccessIsStored ==
    (is_drive_mode /\ pc = "loop") =>
        successful = Cardinality({i \in 1..Len(archive_log) : archive_log[i].run = run_no})

(***************************************************************************)
(* SpecAuth: the sign-in functions of google_drive_auth.py called in any   *)
(* order on one browser session: handle_oauth_callback (136-165),          *)
(* init_auth_from_cookies (366-379), is_authenticated (382-396) and        *)
(* sign_out (464-483), with the cookie manager set as app.py main sets it. *)
(* Each request to the token endpoint and each cookie operation succeeds   *)
(* or raises.                                                              *)
(***************************************************************************)
\* calls of a behaviour
MaxSteps == 4

\* the credentials dicts Google can issue
Credentials == {"creds-a", "creds-b"}

\* load_credentials_from_cookies (99-116): the cookie's dict, None when there
\* is no cookie or reading it raises
load_credentials_from_cookies(jar, load_ok) == IF load_ok THEN jar ELSE None

\* save_credentials_to_cookies (119-133): the cookie afterwards; an exception
\* is printed and swallowed
save_credentials_to_cookies(jar, credentials_dict, save_ok) ==
    IF save_ok THEN credentials_dict ELSE jar

\* the session state [authenticated, credentials] after init_auth_from_cookies
\* (366-379)
init_auth_from_cookies(authenticated, credentials, jar, load_ok) ==
    LET creds_dict == load_credentials_from_cookies(jar, load_ok)
    IN  IF authenticated
        THEN [authenticated |-> authenticated, credentials |-> credentials]
        ELSE IF Truthy(creds_dict)
        THEN [authenticated |-> TRUE, credentials |-> creds_dict]
        ELSE [authenticated |-> authenticated, credentials |-> credentials]

\* the cookie after the "Clear cookies" part of sign_out (476-483); an
\* exception is printed and swallowed
ClearCookies(jar, clear_ok) == IF clear_ok THEN None ELSE jar

LogCall(op, result) == Append(auth_log, [op |-> op, result |-> result])

InitAuth ==
    /\ google_authenticated = FALSE
    /\ google_credentials = None
    /\ cookie \in {None} \cup Credentials
    /\ auth_log = <<>>
    /\ EnvAtRest /\ RunAtRest /\ HistAtRest /\ AppAtRest /\ ExtractAtRest /\ ReconAtRest
    /\ CliAtRest /\ CallAtRest /\ DriveAtRest /\ DelayAtRest

\* handle_oauth_callback(auth_code): token_ok says whether the flow exists and
\* fetch_token succeeds
HandleOauthCallback ==
    /\ Len(auth_log) < MaxSteps
    /\ \E token_ok, save_ok \in BOOLEAN, creds_dict \in Credentials :
          IF token_ok
          THEN /\ google_credentials' = creds_dict
               /\ google_authenticated' = TRUE
               /\ cookie' = save_credentials_to_cookies(cookie, creds_dict, save_ok)
               /\ auth_log' = LogCall("handle_oauth_callback", TRUE)
          ELSE /\ auth_log' = LogCall("handle_oauth_callback", FALSE)
               /\ UNCHANGED <<google_credentials, google_authenticated, cookie>>
    /\ UNCHANGED <<envVars, runVars, histVars, appVars, extractVars, reconVars, cliVars,
                   callVars, driveVars, delayVars>>

\* init_auth_from_cookies(), as main calls it on every rerun (app.py 237)
InitAuthFromCookies ==
    /\ Len(auth_log) < MaxSteps
    /\ \E load_ok \in BOOLEAN :
       \E after \in {init_auth_from_cookies(google_authenticated, google_credentials, cookie,
                                            load_ok)} :
          /\ google_authenticated' = after.authenticated
          /\ google_credentials' = after.credentials
          /\ auth_log' = LogCall("init_auth_from_cookies", after.authenticated)
    /\ UNCHANGED <<cookie, envVars, runVars, histVars, appVars, extractVars, reconVars,
                   cliVars, callVars, driveVars, delayVars>>

\* is_authenticated(): the session flag, after a try at the cookie when it is
\* not set
IsAuthenticated ==
    /\ Len(auth_log) < MaxSteps
    /\ \E load_ok \in BOOLEAN :
       \E after \in {init_auth_from_cookies(google_authenticated, google_credentials, cookie,
                                            load_ok)} :
          /\ google_authenticated' = after.authenticated
          /\ google_credentials' = after.credentials
          /\ auth_log' = LogCall("is_authenticated", after.authenticated)
    /\ UNCHANGED <<cookie, envVars, runVars, histVars, appVars, extractVars, reconVars,
                   cliVars, callVars, driveVars, delayVars>>

\* sign_out(): the session keys are deleted, the cookie is cleared unless
\* that raises
SignOut ==
    /\ Len(auth_log) < MaxSteps
    /\ \E clear_ok \in BOOLEAN :
          cookie' = ClearCookies(cookie, clear_ok)
    /\ google_credentials' = None
    /\ google_authenticated' = FALSE
    /\ auth_log' = LogCall("sign_out", FALSE)
    /\ UNCHANGED <<envVars, runVars, histVars, appVars, extractVars, reconVars, cliVars,
                   callVars, driveVars, delayVars>>

NextAuth ==
    \/ HandleOauthCallback
    \/ InitAuthFromCookies
    \/ IsAuthenticated
    \/ SignOut

SpecAuth == InitAuth /\ [][NextAuth]_vars

\* C30: an is_authenticated call made after a sign_out, with no successful
\* handle_oauth_callback between the two, returns false.
C30_SignedOutUntilCallback ==
    \A i, j \in 1..Len(auth_log) :
        (/\ i < j
         /\ auth_log[i].op = "sign_out"
         /\ auth_log[j].op = "is_authenticated"
         /\ \A k \in (i + 1)..(j - 1) :
               ~(auth_log[k].op = "handle_oauth_callback" /\ auth_log[k].result))
            => ~auth_log[j].result

====
